---- MODULE Spec2Model ----
(***************************************************************************)
(* A model of the scene-rendering core of lysa_engine:                     *)
(*   - MemoryArray / DeviceMemoryArray   (src/src/Memory.cpp)              *)
(*   - AsyncQueue                        (src/src/AsyncQueue.cpp)          *)
(*   - SceneFrameData lights and shadows (src/src/renderers/SceneFrameData.cpp) *)
(*   - Scene deferred operations         (src/src/resources/Scene.cpp)     *)
(* Each component has its own specification (SpecMem, SpecQueue,           *)
(* SpecLights, SpecScene); the variables of the other components stay at   *)
(* their initial values.                                                   *)
(***************************************************************************)
EXTENDS Integers, Sequences, FiniteSets, Bags, TLC

VARIABLES
    \* ---- MemoryArray / DeviceMemoryArray
    freeBlocs,                   \* std::list<MemoryBlock> freeBlocs
    allocated,                   \* bag of the blocks alloc returned that were not freed yet
    pendingWrites,               \* std::vector<vireo::BufferCopyRegion>
    stagingBufferCurrentOffset,  \* size_t
    commandList,                 \* the copies the last flush call recorded in its command list
    memLast,                     \* the last MemoryArray call: arguments, result, state before
    devLast,                     \* the last DeviceMemoryArray call and the state before it
    \* ---- AsyncQueue
    haveDedicatedTransferQueue,  \* vireo->getDevice()->haveDedicatedTransferQueue()
    commandsQueue,               \* std::list<Command> commandsQueue
    freeCommands,                \* std::map<CommandType, std::list<Command>> freeCommands
    previousCommand,             \* Command previousCommand
    fenceSignaled,               \* the state of submitFence
    commandsMutex,               \* the thread holding commandsMutex, NoThread when free
    pc,                          \* where each caller thread and the worker thread stand
    command,                     \* the command each thread holds (a local or a parameter)
    buffers,                     \* std::unordered_map<CommandList, std::list<Buffer>> buffers
    gpuExecuting,                \* ids of the command lists submitted and not yet finished
    created,                     \* number of command lists created so far
    begun,                       \* number of beginCommand calls so far
    submitted,                   \* the commands handed to a submit queue, in order
    recycled,                    \* the commands pushed back to freeCommands, in order
    quit,                        \* bool quit
    destructor,                  \* where the thread running ~AsyncQueue stands, "none" before
    requested,                   \* the commandType each caller passed to beginCommand
    \* ---- SceneFrameData: lights and shadow maps
    lights,                      \* the lights of the snapshot
    removedLights,               \* the lights to remove at the next update
    castShadows,                 \* Light::castShadows of every light
    shadowMaps,                  \* std::vector<Image> shadowMaps, the atlas
    shadowMapIndex,              \* light -> first atlas slot of the light
    shadowMapRenderers,          \* light -> its ShadowMapPass (its shadow map count)
    materialsUpdated,            \* bool
    shadowMapsUpdated,           \* bool
    lightsBufferCount,           \* capacity of lightsBuffer, in lights
    lightsError,                 \* the exception the last light operation threw, "none" if none
    \* ---- Scene and the mesh instances of its SceneFrameData snapshots
    meshInstances,               \* Scene::meshInstances
    updatedNodes,                \* Scene::updatedNodes
    addedNodes,                  \* frame -> FrameData::addedNodes
    addedNodesAsync,             \* frame -> FrameData::addedNodesAsync
    removedNodes,                \* frame -> FrameData::removedNodes
    removedNodesAsync,           \* frame -> FrameData::removedNodesAsync
    meshInstancesDataMemoryBlocks, \* frame -> (mesh instance -> MemoryBlock) of the snapshot
    meshInstancesFreeBlocs,      \* frame -> freeBlocs of the snapshot's meshInstancesDataArray
    meshInstancesDataUpdated,    \* frame -> bool
    sceneFailed,                 \* the failure that ended the run, "none" while it runs
    sceneLast,                   \* the last Scene call
    asyncUsed,                   \* whether an async addInstance or removeInstance was called
    staleData,                   \* frame -> the instances whose record in the snapshot is older than their data
    \* ---- GraphicPipelineData: one pipeline batch of the snapshot of frame 0
    instancesMemoryBlocks,       \* mesh instance -> MemoryBlock of instancesArray
    instancesFreeBlocs,          \* freeBlocs of instancesArray
    drawCommands,                \* drawCommands[0 .. drawCommandsCount - 1]
    instancesToRemove,           \* std::unordered_set instancesToRemove
    instancesUpdated,            \* bool instancesUpdated
    drawCommandsStagingBuffer,   \* the staging buffer, NoBuffer when null
    drawCommandsStagingBufferCount, \* capacity of the staging buffer, in draw commands
    drawCommandsStagingBufferRecycleBin, \* SceneFrameData::drawCommandsStagingBufferRecycleBin
    stagingBuffersCreated,       \* number of staging buffers created so far
    releasedBuffers,             \* staging buffers whose last reference was dropped
    pipelineError,               \* the exception that ended the run, "none" while it runs
    instancesStaged,             \* instancesArray.stagingBufferCurrentOffset, in bytes
    stagingOverflow,             \* whether a write went past the end of the staging buffer
    \* ---- FrustumCulling: the buffers of one pipeline batch
    counterValue,                \* the uint32 held by the counter buffer
    downloadCounterValue,        \* the uint32 held by downloadCounterBuffer
    resourceState,               \* buffer -> the state the recorded commands left it in
    barrierMismatch,             \* a barrier was recorded from a state the buffer was not in
    cullingLast,                 \* the last dispatch call: its drawCommandsCount and the counter on entry
    \* ---- Scene: the lights the scene removed
    lightRemoval,                \* light -> how far Scene::removeLight(light) has got in the snapshot
    \* ---- SceneFrameData: draw submission
    drawRecorded,                \* maxDrawCount of each drawIndexedIndirectCount recorded by the draw calls
    \* ---- RenderTarget: the submissions of the frames in flight
    submissionState,             \* frame -> command list -> none, submitted, running or finished
    semaphoreSignaled,           \* the binary semaphores that are signalled, as <<frame, semaphore>>
    inFlightFence,               \* frame -> the fence of the frame is signalled
    currentFrameIndex,           \* swapChain->getCurrentFrameIndex()
    paused,                      \* bool paused
    renderLast,                  \* the last render call that reached acquire
    \* ---- DeviceMemoryArray called by two threads
    arenaMutex,                  \* the thread holding MemoryArray::mutex, NoThread when free
    arenaPc,                     \* thread -> where it stands in its call
    arenaLocal,                  \* thread -> the call it runs and what it read
    arenaHeld,                   \* thread -> the blocks alloc returned to it that it did not free
    writesRecorded,              \* number of write calls that returned
    writesCopied,                \* number of copy regions recorded by the flush calls
    arenaCalls,                  \* number of calls the threads entered
    \* ---- FrustumCulling: the planes of a dispatch and the test of the culling shader
    cullView,                    \* the view argument of dispatch, the transform of the camera
    cullProjection,              \* the projection argument of dispatch
    cullAABBs,                   \* the world AABBs of the instances of the draw commands
    culledOutput                 \* whether the dispatch ran, and the draw commands it kept

memVars == <<freeBlocs, allocated, pendingWrites, stagingBufferCurrentOffset,
             commandList, memLast, devLast>>

queueVars == <<haveDedicatedTransferQueue, commandsQueue, freeCommands, previousCommand,
               fenceSignaled, commandsMutex, pc, command, buffers, gpuExecuting, created, begun,
               submitted, recycled, quit, destructor, requested>>

lightVars == <<lights, removedLights, castShadows, shadowMaps, shadowMapIndex,
               shadowMapRenderers, materialsUpdated, shadowMapsUpdated, lightsBufferCount,
               lightsError>>

sceneVars == <<meshInstances, updatedNodes, addedNodes, addedNodesAsync, removedNodes,
               removedNodesAsync, meshInstancesDataMemoryBlocks, meshInstancesFreeBlocs,
               meshInstancesDataUpdated, sceneFailed, sceneLast, asyncUsed, staleData>>

pipelineVars == <<instancesMemoryBlocks, instancesFreeBlocs, drawCommands, instancesToRemove,
                  instancesUpdated, drawCommandsStagingBuffer, drawCommandsStagingBufferCount,
                  drawCommandsStagingBufferRecycleBin, stagingBuffersCreated, releasedBuffers,
                  pipelineError, instancesStaged, stagingOverflow>>

cullingVars == <<counterValue, downloadCounterValue, resourceState, barrierMismatch, cullingLast>>

sceneLightVars == <<lightRemoval>>

drawVars == <<drawRecorded>>

renderVars == <<submissionState, semaphoreSignaled, inFlightFence, currentFrameIndex, paused,
                renderLast>>

arenaVars == <<arenaMutex, arenaPc, arenaLocal, arenaHeld, writesRecorded, writesCopied, arenaCalls>>

frustumVars == <<cullView, cullProjection, cullAABBs, culledOutput>>

vars == <<memVars, queueVars, lightVars, sceneVars, pipelineVars, cullingVars, sceneLightVars, drawVars, renderVars, arenaVars, frustumVars>>

otherThanMem == <<queueVars, lightVars, sceneVars, pipelineVars, cullingVars, sceneLightVars, drawVars, renderVars, arenaVars, frustumVars>>
otherThanQueue == <<memVars, lightVars, sceneVars, pipelineVars, cullingVars, sceneLightVars, drawVars, renderVars, arenaVars, frustumVars>>
otherThanLights == <<memVars, queueVars, sceneVars, pipelineVars, cullingVars, drawVars, renderVars, arenaVars, frustumVars>>
otherThanScene == <<memVars, queueVars, lightVars, pipelineVars, cullingVars, sceneLightVars, drawVars, renderVars, arenaVars, frustumVars>>
otherThanPipeline == <<memVars, queueVars, lightVars, cullingVars, sceneLightVars, drawVars, renderVars, arenaVars, frustumVars>>
otherThanCulling == <<memVars, queueVars, lightVars, sceneVars, pipelineVars, sceneLightVars, drawVars, renderVars, arenaVars, frustumVars>>
otherThanDraw == <<memVars, queueVars, lightVars, sceneVars, pipelineVars, cullingVars, sceneLightVars, renderVars, arenaVars, frustumVars>>
otherThanRender == <<memVars, queueVars, lightVars, sceneVars, pipelineVars, cullingVars, sceneLightVars, drawVars, arenaVars, frustumVars>>
otherThanArena == <<queueVars, lightVars, sceneVars, pipelineVars, cullingVars, sceneLightVars, drawVars, renderVars, frustumVars>>
otherThanFrustum == <<memVars, queueVars, lightVars, sceneVars, pipelineVars, cullingVars, sceneLightVars, drawVars, renderVars, arenaVars>>

(***************************************************************************)
(* MemoryArray                                                             *)
(***************************************************************************)
InstanceSize == 2           \* bytes per instance
InstanceCount == 4          \* instances in the arena
StagingInstanceCount == 3   \* instances in the staging buffer

Capacity == InstanceSize * InstanceCount
StagingCapacity == InstanceSize * StagingInstanceCount

\* instanceCount arguments of alloc: at least one instance (DeviceMemoryArray::write
\* rejects a block of size 0), up to more than the arena holds
AllocCounts == 1..(InstanceCount + 1)

MemoryBlock(instanceIndex, offset, size) ==
    [instanceIndex |-> instanceIndex, offset |-> offset, size |-> size]

NoBlock == MemoryBlock(0, 0, 0)

\* MemoryArray::MemoryArray: freeBlocs.push_back({0, 0, instanceSize * instanceCount})
MemoryArrayInit == <<MemoryBlock(0, 0, InstanceSize * InstanceCount)>>

\* std::list::remove: erases every element equal to the value
ListRemove(list, value) == SelectSeq(list, LAMBDA b : b # value)

\* a scan that accepts only a strictly larger block
RECURSIVE AllocScanStrict(_, _, _)
AllocScanStrict(list, i, size) ==
    IF i > Len(list) THEN 0
    ELSE IF list[i].size > size THEN i
    ELSE AllocScanStrict(list, i + 1, size)

\* a scan that takes the last block large enough
RECURSIVE AllocScanLast(_, _, _)
AllocScanLast(list, i, size) ==
    IF i > Len(list) THEN 0
    ELSE LET later == AllocScanLast(list, i + 1, size)
         IN  IF later # 0 THEN later
             ELSE IF list[i].size >= size THEN i ELSE 0

\* the loop of MemoryArray::alloc: the position in freeBlocs of the first bloc with
\* bloc.size >= size, scanning from position i; 0 when the loop ends without one
RECURSIVE AllocScan(_, _, _)
AllocScan(list, i, size) ==
    IF i > Len(list) THEN 0
    ELSE IF list[i].size >= size THEN i
    ELSE AllocScan(list, i + 1, size)

\* the block MemoryArray::alloc returns, NoBlock when it throws
AllocResult(list, instanceCount) ==
    LET size == InstanceSize * instanceCount
        i == AllocScan(list, 1, size)
    IN  IF i = 0 THEN NoBlock
        ELSE MemoryBlock(list[i].offset \div InstanceSize, list[i].offset, size)

\* a split that shrinks the bloc without moving its start
AllocFreeListNoAdvance(list, instanceCount) ==
    LET size == InstanceSize * instanceCount
        i == AllocScan(list, 1, size)
    IN  IF i = 0 THEN list
        ELSE IF list[i].size = size THEN ListRemove(list, list[i])
        ELSE [list EXCEPT ![i].size = @ - size]

\* freeBlocs after MemoryArray::alloc
AllocFreeList(list, instanceCount) ==
    LET size == InstanceSize * instanceCount
        i == AllocScan(list, 1, size)
    IN  IF i = 0 THEN list
        ELSE IF list[i].size = size THEN ListRemove(list, list[i])
        ELSE [list EXCEPT ![i].offset = @ + size, ![i].size = @ - size]

\* a free that merges the block into a free bloc that ends where it starts
FreeListCoalescing(list, bloc) ==
    IF \E i \in DOMAIN list : list[i].offset + list[i].size = bloc.offset
    THEN LET i == CHOOSE j \in DOMAIN list : list[j].offset + list[j].size = bloc.offset
         IN  [list EXCEPT ![i].size = @ + bloc.size]
    ELSE Append(list, bloc)

\* a free that loses the block
FreeListDropped(list, bloc) == list

\* freeBlocs after MemoryArray::free: freeBlocs.push_back(bloc)
FreeList(list, bloc) == Append(list, bloc)

MemLast(op, count, block, oom, before, roundTrip, origin) ==
    [op |-> op, count |-> count, block |-> block, oom |-> oom, before |-> before,
     roundTrip |-> roundTrip, origin |-> origin]

DevLast(op, previous, pending, offset) ==
    [op |-> op, previous |-> previous, pending |-> pending, offset |-> offset]

\* DeviceMemoryArray's members after construction, and the records of the last calls
StagingInit ==
    /\ pendingWrites = <<>>
    /\ stagingBufferCurrentOffset = 0
    /\ commandList = <<>>
    /\ memLast = MemLast("init", 0, NoBlock, FALSE, <<>>, FALSE, <<>>)
    /\ devLast = DevLast("init", "init", <<>>, 0)

MemInit ==
    /\ freeBlocs = MemoryArrayInit
    /\ allocated = EmptyBag
    /\ StagingInit

\* MemoryArray::alloc(instanceCount); on "Out of memory" nothing is returned
Alloc(instanceCount) ==
    LET result == AllocResult(freeBlocs, instanceCount)
        oom == AllocScan(freeBlocs, 1, InstanceSize * instanceCount) = 0
    IN  /\ freeBlocs' = AllocFreeList(freeBlocs, instanceCount)
        /\ allocated' = IF oom THEN allocated ELSE allocated (+) SetToBag({result})
        /\ memLast' = MemLast("alloc", instanceCount, result, oom, freeBlocs, FALSE, <<>>)
        /\ UNCHANGED <<pendingWrites, stagingBufferCurrentOffset, commandList, devLast>>
        /\ UNCHANGED otherThanMem

\* MemoryArray::free(bloc), called with a block alloc returned and that was not freed
Free(bloc) ==
    /\ BagIn(bloc, allocated)
    /\ freeBlocs' = FreeList(freeBlocs, bloc)
    /\ allocated' = allocated (-) SetToBag({bloc})
    /\ memLast' = MemLast("free", 0, bloc, FALSE, freeBlocs,
                          memLast.op = "alloc" /\ ~memLast.oom /\ memLast.block = bloc,
                          IF memLast.op = "alloc" /\ ~memLast.oom /\ memLast.block = bloc
                          THEN memLast.before ELSE <<>>)
    /\ UNCHANGED <<pendingWrites, stagingBufferCurrentOffset, commandList, devLast>>
        /\ UNCHANGED otherThanMem

(***************************************************************************)
(* DeviceMemoryArray                                                       *)
(***************************************************************************)
BufferCopyRegion(srcOffset, dstOffset, size) ==
    [srcOffset |-> srcOffset, dstOffset |-> dstOffset, size |-> size]

\* DeviceMemoryArray::write(destination, source); the caller keeps the staged bytes
\* within the staging buffer
Write(destination) ==
    /\ BagIn(destination, allocated)
    /\ destination.size # 0
    /\ stagingBufferCurrentOffset + destination.size <= StagingCapacity
    /\ pendingWrites' = Append(pendingWrites,
           BufferCopyRegion(stagingBufferCurrentOffset, destination.offset, destination.size))
    /\ stagingBufferCurrentOffset' = stagingBufferCurrentOffset + destination.size
    /\ devLast' = DevLast("write", devLast.op, pendingWrites, stagingBufferCurrentOffset)
    /\ UNCHANGED <<freeBlocs, allocated, commandList, memLast>>
    /\ UNCHANGED otherThanMem

\* a flush that keeps the staging offset
FlushKeepOffset ==
    /\ IF pendingWrites # <<>>
       THEN /\ commandList' = <<pendingWrites>>
            /\ pendingWrites' = <<>>
            /\ UNCHANGED stagingBufferCurrentOffset
       ELSE /\ commandList' = <<>>
            /\ UNCHANGED <<pendingWrites, stagingBufferCurrentOffset>>
    /\ devLast' = DevLast("flush", devLast.op, pendingWrites, stagingBufferCurrentOffset)
    /\ UNCHANGED <<freeBlocs, allocated, memLast>>
    /\ UNCHANGED otherThanMem

\* DeviceMemoryArray::flush(commandList), called with a command list that holds nothing
\* of this array yet
Flush ==
    /\ IF pendingWrites # <<>>
       THEN /\ commandList' = <<pendingWrites>>
            /\ pendingWrites' = <<>>
            /\ stagingBufferCurrentOffset' = 0
       ELSE /\ commandList' = <<>>
            /\ UNCHANGED <<pendingWrites, stagingBufferCurrentOffset>>
    /\ devLast' = DevLast("flush", devLast.op, pendingWrites, stagingBufferCurrentOffset)
    /\ UNCHANGED <<freeBlocs, allocated, memLast>>
    /\ UNCHANGED otherThanMem

\* the arena after the alloc calls of a sequence of instance counts
RECURSIVE AfterAllocs(_, _, _)
AfterAllocs(list, held, counts) ==
    IF counts = <<>> THEN [freeBlocs |-> list, allocated |-> held]
    ELSE AfterAllocs(AllocFreeList(list, Head(counts)),
                     held (+) SetToBag({AllocResult(list, Head(counts))}),
                     Tail(counts))

\* the allocations a staged arena starts the write/flush runs with
DevInitAllocs == {<<1, 1, 1>>, <<2, 1>>, <<1, 2>>}

(***************************************************************************)
(* AsyncQueue                                                              *)
(***************************************************************************)
NumCallers == 2             \* threads calling beginCommand / endCommand
MaxBegins == 3              \* beginCommand calls in a run
MaxBuffersPerCommand == 1   \* createBuffer calls against one command

Worker == 0
Callers == 1..NumCallers
Threads == {Worker} \cup Callers
NoThread == -1

CommandTypes == {"TRANSFER", "GRAPHIC"}

\* AsyncQueue::Command; the id stands for its commandList and commandAllocator
Command(id, commandType) == [id |-> id, commandType |-> commandType]

\* a default-constructed Command: commandList == nullptr
NullCommand == Command(0, "NONE")

\* AsyncQueue::AsyncQueue: the worker thread is started when the device has a dedicated
\* transfer queue; submitFence is created signaled
QueueInit(dedicated) ==
    /\ quit = FALSE
    /\ destructor = "none"
    /\ requested = [t \in Callers |-> "NONE"]
    /\ haveDedicatedTransferQueue = dedicated
    /\ commandsQueue = <<>>
    /\ freeCommands = [type \in CommandTypes |-> <<>>]
    /\ previousCommand = NullCommand
    /\ fenceSignaled = TRUE
    /\ commandsMutex = NoThread
    /\ pc = [t \in Threads |-> IF t = Worker
                               THEN (IF dedicated THEN "loop" ELSE "absent")
                               ELSE "idle"]
    /\ command = [t \in Threads |-> NullCommand]
    /\ buffers = <<>>
    /\ gpuExecuting = {}
    /\ created = 0
    /\ begun = 0
    /\ submitted = <<>>
    /\ recycled = <<>>

\* a beginCommand that falls back on the pool of the other type before creating a command
BeginCommandAnyPool(t, commandType) ==
    LET other == CHOOSE type \in CommandTypes : type # commandType
        from == IF freeCommands[commandType] # <<>> THEN commandType ELSE other
    IN  /\ pc[t] = "idle"
        /\ destructor = "none"
        /\ commandsMutex = NoThread
        /\ begun < MaxBegins
        /\ begun' = begun + 1
        /\ requested' = [requested EXCEPT ![t] = commandType]
        /\ IF freeCommands[from] = <<>>
           THEN /\ command' = [command EXCEPT ![t] = Command(created + 1, commandType)]
                /\ created' = created + 1
                /\ UNCHANGED freeCommands
           ELSE /\ command' = [command EXCEPT ![t] = Head(freeCommands[from])]
                /\ freeCommands' = [freeCommands EXCEPT ![from] = Tail(@)]
                /\ UNCHANGED created
        /\ pc' = [pc EXCEPT ![t] = "recording"]
        /\ UNCHANGED <<haveDedicatedTransferQueue, commandsQueue, previousCommand,
                       fenceSignaled, commandsMutex, buffers, gpuExecuting, submitted, recycled>>
        /\ UNCHANGED <<quit, destructor>>
        /\ UNCHANGED otherThanQueue

\* AsyncQueue::beginCommand(commandType), the whole call under commandsMutex: a new
\* command when the pool of the type is empty, else the front of the pool, reset and begun
BeginCommand(t, commandType) ==
    /\ pc[t] = "idle"
    /\ destructor = "none"
    /\ commandsMutex = NoThread
    /\ begun < MaxBegins
    /\ begun' = begun + 1
    /\ requested' = [requested EXCEPT ![t] = commandType]
    /\ IF freeCommands[commandType] = <<>>
       THEN /\ command' = [command EXCEPT ![t] = Command(created + 1, commandType)]
            /\ created' = created + 1
            /\ UNCHANGED freeCommands
       ELSE /\ command' = [command EXCEPT ![t] = Head(freeCommands[commandType])]
            /\ freeCommands' = [freeCommands EXCEPT ![commandType] = Tail(@)]
            /\ UNCHANGED created
    /\ pc' = [pc EXCEPT ![t] = "recording"]
    /\ UNCHANGED <<haveDedicatedTransferQueue, commandsQueue, previousCommand, fenceSignaled,
                   commandsMutex, buffers, gpuExecuting, submitted, recycled>>
    /\ UNCHANGED <<quit, destructor>>
    /\ UNCHANGED otherThanQueue

BuffersOf(id) == IF id \in DOMAIN buffers THEN buffers[id] ELSE 0

\* AsyncQueue::createBuffer(command, ...), under buffersMutex, by the thread recording
\* the command
CreateBuffer(t) ==
    /\ pc[t] = "recording"
    /\ destructor = "none"
    /\ BuffersOf(command[t].id) < MaxBuffersPerCommand
    /\ buffers' = (command[t].id :> (BuffersOf(command[t].id) + 1)) @@ buffers
    /\ UNCHANGED <<haveDedicatedTransferQueue, commandsQueue, freeCommands, previousCommand,
                   fenceSignaled, commandsMutex, pc, command, gpuExecuting, created, begun,
                   submitted, recycled>>
    /\ UNCHANGED <<quit, destructor, requested>>
    /\ UNCHANGED otherThanQueue

\* AsyncQueue::endCommand(command, immediate = false), under commandsMutex: the command is
\* queued, and the worker is notified for a TRANSFER command when there is a worker
EndCommandQueued(t) ==
    /\ pc[t] = "recording"
    /\ destructor = "none"
    /\ commandsMutex = NoThread
    /\ commandsQueue' = Append(commandsQueue, command[t])
    /\ pc' = [pc EXCEPT ![t] = "idle",
                        ![Worker] = IF /\ command[t].commandType = "TRANSFER"
                                       /\ haveDedicatedTransferQueue
                                       /\ pc[Worker] = "sleep"
                                    THEN "check" ELSE @]
    /\ command' = [command EXCEPT ![t] = NullCommand]
    /\ requested' = [requested EXCEPT ![t] = "NONE"]
    /\ UNCHANGED <<haveDedicatedTransferQueue, freeCommands, previousCommand, fenceSignaled,
                   commandsMutex, buffers, gpuExecuting, created, begun, submitted, recycled>>
    /\ UNCHANGED <<quit, destructor>>
    /\ UNCHANGED otherThanQueue

\* AsyncQueue::endCommand(command, immediate = true): the caller enters submit(command),
\* holding no mutex
EndCommandImmediate(t) ==
    /\ pc[t] = "recording"
    /\ destructor = "none"
    /\ pc' = [pc EXCEPT ![t] = "wait"]
    /\ UNCHANGED <<haveDedicatedTransferQueue, commandsQueue, freeCommands, previousCommand,
                   fenceSignaled, commandsMutex, command, buffers, gpuExecuting, created,
                   begun, submitted, recycled>>
    /\ UNCHANGED <<quit, destructor, requested>>
    /\ UNCHANGED otherThanQueue

\* AsyncQueue::run, the loop condition while (!quit): the worker leaves when quit is set
WorkerLoop ==
    /\ pc[Worker] = "loop"
    /\ pc' = [pc EXCEPT ![Worker] = IF quit THEN "exited" ELSE "check"]
    /\ UNCHANGED <<haveDedicatedTransferQueue, commandsQueue, freeCommands, previousCommand,
                   fenceSignaled, commandsMutex, command, buffers, gpuExecuting, created,
                   begun, submitted, recycled>>
    /\ UNCHANGED <<quit, destructor, requested>>
    /\ UNCHANGED otherThanQueue

\* AsyncQueue::run, the predicate of queueCv.wait (quit || !commandsQueue.empty()),
\* evaluated under queueMutex: the worker goes on when it holds, and is about to block
\* when not
WorkerCheck ==
    /\ pc[Worker] = "check"
    /\ pc' = [pc EXCEPT ![Worker] = IF quit \/ commandsQueue # <<>> THEN "lock" ELSE "block"]
    /\ UNCHANGED <<haveDedicatedTransferQueue, commandsQueue, freeCommands, previousCommand,
                   fenceSignaled, commandsMutex, command, buffers, gpuExecuting, created,
                   begun, submitted, recycled>>
    /\ UNCHANGED <<quit, destructor, requested>>
    /\ UNCHANGED otherThanQueue

\* queueCv.wait: the worker releases queueMutex and blocks. No notifier takes queueMutex,
\* so a notify_one issued between the predicate and this step finds no waiter
WorkerBlock ==
    /\ pc[Worker] = "block"
    /\ pc' = [pc EXCEPT ![Worker] = "sleep"]
    /\ UNCHANGED <<haveDedicatedTransferQueue, commandsQueue, freeCommands, previousCommand,
                   fenceSignaled, commandsMutex, command, buffers, gpuExecuting, created,
                   begun, submitted, recycled>>
    /\ UNCHANGED <<quit, destructor, requested>>
    /\ UNCHANGED otherThanQueue

\* queueCv.wait: a spurious wakeup, after which the predicate is evaluated again
WorkerSpuriousWakeup ==
    /\ pc[Worker] = "sleep"
    /\ pc' = [pc EXCEPT ![Worker] = "check"]
    /\ UNCHANGED <<haveDedicatedTransferQueue, commandsQueue, freeCommands, previousCommand,
                   fenceSignaled, commandsMutex, command, buffers, gpuExecuting, created,
                   begun, submitted, recycled>>
    /\ UNCHANGED <<quit, destructor, requested>>
    /\ UNCHANGED otherThanQueue

\* AsyncQueue::run: the worker takes commandsMutex, pops the front of the queue and
\* enters submit(command), keeping the mutex; with an empty queue it loops
WorkerPop ==
    /\ pc[Worker] = "lock"
    /\ commandsMutex = NoThread
    /\ IF commandsQueue # <<>>
       THEN /\ commandsMutex' = Worker
            /\ command' = [command EXCEPT ![Worker] = Head(commandsQueue)]
            /\ commandsQueue' = Tail(commandsQueue)
            /\ pc' = [pc EXCEPT ![Worker] = "wait"]
       ELSE /\ pc' = [pc EXCEPT ![Worker] = "loop"]
            /\ UNCHANGED <<commandsMutex, command, commandsQueue>>
    /\ UNCHANGED <<haveDedicatedTransferQueue, freeCommands, previousCommand, fenceSignaled,
                   buffers, gpuExecuting, created, begun, submitted, recycled>>
    /\ UNCHANGED <<quit, destructor, requested>>
    /\ UNCHANGED otherThanQueue

\* AsyncQueue::submit: submitFence->wait()
SubmitWait(t) ==
    /\ pc[t] = "wait"
    /\ fenceSignaled
    /\ pc' = [pc EXCEPT ![t] = "reset"]
    /\ UNCHANGED <<haveDedicatedTransferQueue, commandsQueue, freeCommands, previousCommand,
                   fenceSignaled, commandsMutex, command, buffers, gpuExecuting, created,
                   begun, submitted, recycled>>
    /\ UNCHANGED <<quit, destructor, requested>>
    /\ UNCHANGED otherThanQueue

\* AsyncQueue::submit: submitFence->reset()
SubmitReset(t) ==
    /\ pc[t] = "reset"
    /\ fenceSignaled' = FALSE
    /\ pc' = [pc EXCEPT ![t] = "recycle"]
    /\ UNCHANGED <<haveDedicatedTransferQueue, commandsQueue, freeCommands, previousCommand,
                   commandsMutex, command, buffers, gpuExecuting, created, begun, submitted,
                   recycled>>
    /\ UNCHANGED <<quit, destructor, requested>>
    /\ UNCHANGED otherThanQueue

\* the map without a key
Erase(map, key) == [k \in DOMAIN map \ {key} |-> map[k]]

\* AsyncQueue::submit: the previous command, if any, loses its buffers and goes back to
\* the pool of its type
SubmitRecycle(t) ==
    /\ pc[t] = "recycle"
    /\ IF previousCommand # NullCommand
       THEN /\ buffers' = Erase(buffers, previousCommand.id)
            /\ freeCommands' = [freeCommands EXCEPT
                                  ![previousCommand.commandType] = Append(@, previousCommand)]
            /\ recycled' = Append(recycled, previousCommand)
       ELSE UNCHANGED <<buffers, freeCommands, recycled>>
    /\ pc' = [pc EXCEPT ![t] = "submit"]
    /\ UNCHANGED <<haveDedicatedTransferQueue, commandsQueue, previousCommand, fenceSignaled,
                   commandsMutex, command, gpuExecuting, created, begun, submitted>>
    /\ UNCHANGED <<quit, destructor, requested>>
    /\ UNCHANGED otherThanQueue

\* AsyncQueue::submit: graphicQueue->submit or transferQueue->submit with submitFence
SubmitToQueue(t) ==
    /\ pc[t] = "submit"
    /\ gpuExecuting' = gpuExecuting \cup {command[t].id}
    /\ submitted' = Append(submitted, command[t])
    /\ pc' = [pc EXCEPT ![t] = "setPrevious"]
    /\ UNCHANGED <<haveDedicatedTransferQueue, commandsQueue, freeCommands, previousCommand,
                   fenceSignaled, commandsMutex, command, buffers, created, begun, recycled>>
    /\ UNCHANGED <<quit, destructor, requested>>
    /\ UNCHANGED otherThanQueue

\* AsyncQueue::submit: previousCommand = command, and the return: the worker releases
\* commandsMutex and loops, a caller returns from endCommand
SubmitSetPrevious(t) ==
    /\ pc[t] = "setPrevious"
    /\ previousCommand' = command[t]
    /\ command' = [command EXCEPT ![t] = NullCommand]
    /\ pc' = [pc EXCEPT ![t] = IF t = Worker THEN "loop" ELSE "idle"]
    /\ commandsMutex' = IF t = Worker THEN NoThread ELSE commandsMutex
    /\ requested' = IF t = Worker THEN requested ELSE [requested EXCEPT ![t] = "NONE"]
    /\ UNCHANGED <<haveDedicatedTransferQueue, commandsQueue, freeCommands, fenceSignaled,
                   buffers, gpuExecuting, created, begun, submitted, recycled>>
    /\ UNCHANGED <<quit, destructor>>
    /\ UNCHANGED otherThanQueue

\* the device finishes a submitted command list and signals the fence of its submission
GpuComplete(id) ==
    /\ id \in gpuExecuting
    /\ gpuExecuting' = gpuExecuting \ {id}
    /\ fenceSignaled' = TRUE
    /\ UNCHANGED <<haveDedicatedTransferQueue, commandsQueue, freeCommands, previousCommand,
                   commandsMutex, pc, command, buffers, created, begun, submitted, recycled>>
    /\ UNCHANGED <<quit, destructor, requested>>
    /\ UNCHANGED otherThanQueue

\* AsyncQueue::~AsyncQueue: quit = true, set while no caller is inside a call of the queue
DestructorSetQuit ==
    /\ destructor = "none"
    /\ \A t \in Callers : pc[t] \in {"idle", "recording"}
    /\ quit' = TRUE
    /\ destructor' = IF haveDedicatedTransferQueue THEN "notify" ELSE "release"
    /\ UNCHANGED <<haveDedicatedTransferQueue, commandsQueue, freeCommands, previousCommand,
                   fenceSignaled, commandsMutex, pc, command, buffers, gpuExecuting, created,
                   begun, submitted, recycled, requested>>
    /\ UNCHANGED otherThanQueue

\* AsyncQueue::~AsyncQueue: queueCv.notify_one(), which wakes the worker if it is waiting
DestructorNotify ==
    /\ destructor = "notify"
    /\ destructor' = "join"
    /\ pc' = [pc EXCEPT ![Worker] = IF @ = "sleep" THEN "check" ELSE @]
    /\ UNCHANGED <<haveDedicatedTransferQueue, commandsQueue, freeCommands, previousCommand,
                   fenceSignaled, commandsMutex, command, buffers, gpuExecuting, created,
                   begun, submitted, recycled, quit, requested>>
    /\ UNCHANGED otherThanQueue

\* AsyncQueue::~AsyncQueue: queueThread->join() returns once the worker has left run
DestructorJoin ==
    /\ destructor = "join"
    /\ pc[Worker] = "exited"
    /\ destructor' = "release"
    /\ UNCHANGED <<haveDedicatedTransferQueue, commandsQueue, freeCommands, previousCommand,
                   fenceSignaled, commandsMutex, pc, command, buffers, gpuExecuting, created,
                   begun, submitted, recycled, quit, requested>>
    /\ UNCHANGED otherThanQueue

\* AsyncQueue::~AsyncQueue: the fence, the commands still in commandsQueue and the pooled
\* commands are released; both containers keep their entries
DestructorRelease ==
    /\ destructor = "release"
    /\ destructor' = "done"
    /\ UNCHANGED <<haveDedicatedTransferQueue, commandsQueue, freeCommands, previousCommand,
                   fenceSignaled, commandsMutex, pc, command, buffers, gpuExecuting, created,
                   begun, submitted, recycled, quit, requested>>
    /\ UNCHANGED otherThanQueue

(***************************************************************************)
(* DeviceMemoryArray called by two threads                                 *)
(***************************************************************************)
ArenaThreads == {1, 2}
ArenaAllocCount == 1        \* instanceCount argument of the alloc calls of the threads
MaxArenaCalls == 7          \* calls of a run, of both threads together

ArenaCallOf(op, arg) ==
    [op |-> op, arg |-> arg, freeBlocs |-> <<>>, pendingWrites |-> <<>>, offset |-> 0]

NoArenaCall == ArenaCallOf("none", NoBlock)

\* no thread is in a call
ArenaIdle ==
    /\ arenaMutex = NoThread
    /\ arenaPc = [t \in ArenaThreads |-> "idle"]
    /\ arenaLocal = [t \in ArenaThreads |-> NoArenaCall]
    /\ arenaHeld = [t \in ArenaThreads |-> {}]
    /\ writesRecorded = 0
    /\ writesCopied = 0
    /\ arenaCalls = 0

\* the bytes of the write calls that were entered and have not returned yet
WritesInProgress ==
    LET writers == {t \in ArenaThreads : arenaLocal[t].op = "write"}
        RECURSIVE Sum(_)
        Sum(ts) == IF ts = {} THEN 0
                   ELSE LET t == CHOOSE u \in ts : TRUE
                        IN  arenaLocal[t].arg.size + Sum(ts \ {t})
    IN  Sum(writers)

\* thread t enters alloc(arg), free(arg), write(arg, source) or flush(commandList). A
\* thread frees and writes the blocks it holds, and the threads keep the staged bytes
\* within the staging buffer
ArenaCall(t, op, arg) ==
    /\ arenaPc[t] = "idle"
    /\ arenaCalls < MaxArenaCalls
    /\ arenaCalls' = arenaCalls + 1
    /\ op = "write" =>
          stagingBufferCurrentOffset + WritesInProgress + arg.size <= StagingCapacity
    /\ arenaPc' = [arenaPc EXCEPT ![t] = "lock"]
    /\ arenaLocal' = [arenaLocal EXCEPT ![t] = ArenaCallOf(op, arg)]
    /\ UNCHANGED <<arenaMutex, arenaHeld, writesRecorded, writesCopied>>
    /\ UNCHANGED memVars
    /\ UNCHANGED otherThanArena

\* a lock that does not exclude the other thread
LockGuardOpen(t) == TRUE

\* std::lock_guard{mutex}: the constructor returns once no thread holds the mutex
LockGuard(t) == arenaMutex = NoThread

\* auto lock = std::lock_guard{mutex}
ArenaLock(t) ==
    /\ arenaPc[t] = "lock"
    /\ LockGuard(t)
    /\ arenaMutex' = t
    /\ arenaPc' = [arenaPc EXCEPT ![t] = "read"]
    /\ UNCHANGED <<arenaLocal, arenaHeld, writesRecorded, writesCopied, arenaCalls>>
    /\ UNCHANGED memVars
    /\ UNCHANGED otherThanArena

\* the body of the call reads the members it works on: the free list (alloc, free),
\* the pending writes and the staging offset (write, flush)
ArenaRead(t) ==
    /\ arenaPc[t] = "read"
    /\ arenaPc' = [arenaPc EXCEPT ![t] = "commit"]
    /\ arenaLocal' = [arenaLocal EXCEPT ![t].freeBlocs = freeBlocs,
                                        ![t].pendingWrites = pendingWrites,
                                        ![t].offset = stagingBufferCurrentOffset]
    /\ UNCHANGED <<arenaMutex, arenaHeld, writesRecorded, writesCopied, arenaCalls>>
    /\ UNCHANGED memVars
    /\ UNCHANGED otherThanArena

\* the body of the call stores what it computed from what it read, the lock guard is
\* destroyed and the call returns
ArenaCommit(t) ==
    LET call == arenaLocal[t]
        oom == AllocScan(call.freeBlocs, 1, InstanceSize * call.arg) = 0
        result == AllocResult(call.freeBlocs, call.arg)
    IN
    /\ arenaPc[t] = "commit"
    /\ arenaPc' = [arenaPc EXCEPT ![t] = "idle"]
    /\ arenaLocal' = [arenaLocal EXCEPT ![t] = NoArenaCall]
    /\ arenaMutex' = NoThread
    /\ UNCHANGED <<memLast, devLast, arenaCalls>>
    /\ UNCHANGED otherThanArena
    /\ CASE call.op = "alloc" ->
              /\ freeBlocs' = AllocFreeList(call.freeBlocs, call.arg)
              /\ allocated' = IF oom THEN allocated ELSE allocated (+) SetToBag({result})
              /\ arenaHeld' = IF oom THEN arenaHeld
                              ELSE [arenaHeld EXCEPT ![t] = @ \cup {result}]
              /\ UNCHANGED <<pendingWrites, stagingBufferCurrentOffset, commandList,
                             writesRecorded, writesCopied>>
         [] call.op = "free" ->
              /\ freeBlocs' = FreeList(call.freeBlocs, call.arg)
              /\ allocated' = allocated (-) SetToBag({call.arg})
              /\ arenaHeld' = [arenaHeld EXCEPT ![t] = @ \ {call.arg}]
              /\ UNCHANGED <<pendingWrites, stagingBufferCurrentOffset, commandList,
                             writesRecorded, writesCopied>>
         [] call.op = "write" ->
              /\ pendingWrites' = Append(call.pendingWrites,
                     BufferCopyRegion(call.offset, call.arg.offset, call.arg.size))
              /\ stagingBufferCurrentOffset' = call.offset + call.arg.size
              /\ writesRecorded' = writesRecorded + 1
              /\ UNCHANGED <<freeBlocs, allocated, arenaHeld, commandList, writesCopied>>
         [] call.op = "flush" ->
              /\ IF call.pendingWrites # <<>>
                 THEN /\ commandList' = <<call.pendingWrites>>
                      /\ pendingWrites' = <<>>
                      /\ stagingBufferCurrentOffset' = 0
                      /\ writesCopied' = writesCopied + Len(call.pendingWrites)
                 ELSE /\ commandList' = <<>>
                      /\ UNCHANGED <<pendingWrites, stagingBufferCurrentOffset, writesCopied>>
              /\ UNCHANGED <<freeBlocs, allocated, arenaHeld, writesRecorded>>

(***************************************************************************)
(* SceneFrameData: lights and shadow maps                                  *)
(***************************************************************************)
NumLights == 3                \* lights of the application
MaxShadowMapsPerScene == 2    \* ctx.config.maxShadowMapsPerScene
MaxLights == 2                \* maxLights of the snapshot
ShadowMapCascadesCount == 3   \* Light::shadowMapCascadesCount of the directional lights

Lights == 1..NumLights

\* the type of each light: the three types in turn
LightType(light) ==
    CASE light % 3 = 1 -> "LIGHT_OMNI"
      [] light % 3 = 2 -> "LIGHT_DIRECTIONAL"
      [] OTHER -> "LIGHT_SPOT"

\* ShadowMapPass::ShadowMapPass: subpassesCount, the number of shadow maps of the pass
ShadowMapCount(light) ==
    CASE LightType(light) = "LIGHT_DIRECTIONAL" -> ShadowMapCascadesCount
      [] LightType(light) = "LIGHT_OMNI" -> 6
      [] OTHER -> 1

\* the blank image of the ImageManager, and the i-th shadow map of a light's pass
BlankImage == <<0, 0>>
ShadowMapImage(light, i) == <<light, i + 1>>

SlotCount == MaxShadowMapsPerScene * 6
NoSlot == -1

\* SceneFrameData::SceneFrameData: every atlas slot holds the blank image; lightsBuffer
\* is created for one light
LightsInit ==
    /\ lights = {}
    /\ removedLights = {}
    /\ castShadows \in [Lights -> BOOLEAN]
    /\ shadowMaps = [slot \in 0..(SlotCount - 1) |-> BlankImage]
    /\ shadowMapIndex = <<>>
    /\ shadowMapRenderers = <<>>
    /\ materialsUpdated = FALSE
    /\ shadowMapsUpdated = FALSE
    /\ lightsBufferCount = 1
    /\ lightsError = "none"

\* the part of the snapshot the shadow-casting code reads and writes
ShadowState ==
    [shadowMaps |-> shadowMaps, shadowMapIndex |-> shadowMapIndex,
     shadowMapRenderers |-> shadowMapRenderers, materialsUpdated |-> materialsUpdated,
     shadowMapsUpdated |-> shadowMapsUpdated, lightsError |-> lightsError]

\* a scan that tests the last slot of each group of six
RECURSIVE FirstBlankSlotLast(_, _)
FirstBlankSlotLast(maps, index) ==
    IF index >= SlotCount THEN NoSlot
    ELSE IF maps[index + 5] = BlankImage THEN index
    ELSE FirstBlankSlotLast(maps, index + 6)

\* the loop of enableLightShadowCasting: the first index, in steps of 6 from index, whose
\* slot holds the blank image
RECURSIVE FirstBlankSlot(_, _)
FirstBlankSlot(maps, index) ==
    IF index >= SlotCount THEN NoSlot
    ELSE IF maps[index] = BlankImage THEN index
    ELSE FirstBlankSlot(maps, index + 6)

\* SceneFrameData::enableLightShadowCasting(light)
EnableLightShadowCasting(st, light) ==
    IF /\ castShadows[light]
       /\ light \notin DOMAIN st.shadowMapRenderers
       /\ Cardinality(DOMAIN st.shadowMapRenderers) < MaxShadowMapsPerScene
    THEN LET count == ShadowMapCount(light)
             index == FirstBlankSlot(st.shadowMaps, 0)
             withPass == [st EXCEPT !.materialsUpdated = TRUE,
                                   !.shadowMapRenderers = (light :> count) @@ @]
         IN  IF index = NoSlot
             THEN [withPass EXCEPT !.lightsError = "Out of memory for shadow map"]
             ELSE [withPass EXCEPT
                     !.shadowMapIndex = (light :> index) @@ @,
                     !.shadowMaps = [slot \in DOMAIN @ |->
                                        IF slot >= index /\ slot < index + count
                                        THEN ShadowMapImage(light, slot - index)
                                        ELSE @[slot]],
                     !.shadowMapsUpdated = TRUE]
    ELSE st

\* a disableLightShadowCasting that drops the renderer and leaves its images in the atlas
DisableLightShadowCastingKeepImages(st, light) ==
    IF light \in DOMAIN st.shadowMapRenderers
    THEN [st EXCEPT
            !.shadowMapsUpdated = TRUE,
            !.shadowMapIndex = [l \in DOMAIN @ \ {light} |-> @[l]],
            !.shadowMapRenderers = [l \in DOMAIN @ \ {light} |-> @[l]]]
    ELSE st

\* SceneFrameData::disableLightShadowCasting(light); shadowMapIndex[light] inserts 0 for
\* a light without an index
DisableLightShadowCasting(st, light) ==
    IF light \in DOMAIN st.shadowMapRenderers
    THEN LET count == st.shadowMapRenderers[light]
             index == IF light \in DOMAIN st.shadowMapIndex
                      THEN st.shadowMapIndex[light] ELSE 0
         IN  [st EXCEPT
                !.shadowMaps = [slot \in DOMAIN @ |->
                                   IF slot >= index /\ slot < index + count
                                   THEN BlankImage ELSE @[slot]],
                !.shadowMapsUpdated = TRUE,
                !.shadowMapIndex = [l \in DOMAIN @ \ {light} |-> @[l]],
                !.shadowMapRenderers = [l \in DOMAIN @ \ {light} |-> @[l]]]
    ELSE st

\* the sequences that hold every element of a set once: the orders a loop may visit it in
RECURSIVE Orders(_)
Orders(set) ==
    IF set = {} THEN {<<>>}
    ELSE UNION {{<<x>> \o rest : rest \in Orders(set \ {x})} : x \in set}

\* SceneFrameData::update, the loop over removedLights
RECURSIVE DisableAll(_, _)
DisableAll(st, order) ==
    IF order = <<>> THEN st
    ELSE DisableAll(DisableLightShadowCasting(st, Head(order)), Tail(order))

\* SceneFrameData::update, the loop over lights; it ends at the first exception
RECURSIVE ReevaluateAll(_, _)
ReevaluateAll(st, order) ==
    IF order = <<>> \/ st.lightsError # "none" THEN st
    ELSE ReevaluateAll(
             IF castShadows[Head(order)]
             THEN EnableLightShadowCasting(st, Head(order))
             ELSE DisableLightShadowCasting(st, Head(order)),
             Tail(order))

SetShadowState(st) ==
    /\ shadowMaps' = st.shadowMaps
    /\ shadowMapIndex' = st.shadowMapIndex
    /\ shadowMapRenderers' = st.shadowMapRenderers
    /\ materialsUpdated' = st.materialsUpdated
    /\ shadowMapsUpdated' = st.shadowMapsUpdated
    /\ lightsError' = st.lightsError

\* SceneFrameData::addLight(light)
AddLight(light) ==
    /\ lights' = lights \cup {light}
    /\ SetShadowState(EnableLightShadowCasting([ShadowState EXCEPT !.lightsError = "none"],
                                               light))
    /\ UNCHANGED <<removedLights, castShadows, lightsBufferCount>>
    /\ UNCHANGED otherThanLights

\* SceneFrameData::removeLight(light)
RemoveLight(light) ==
    /\ removedLights' = IF light \in lights THEN removedLights \cup {light} ELSE removedLights
    /\ lightsError' = "none"
    /\ UNCHANGED <<lights, castShadows, shadowMaps, shadowMapIndex, shadowMapRenderers,
                   materialsUpdated, shadowMapsUpdated, lightsBufferCount>>
    /\ UNCHANGED otherThanLights

\* the application sets Light::castShadows
SetCastShadows(light, value) ==
    /\ castShadows[light] # value
    /\ castShadows' = [castShadows EXCEPT ![light] = value]
    /\ UNCHANGED <<lights, removedLights, shadowMaps, shadowMapIndex, shadowMapRenderers,
                   materialsUpdated, shadowMapsUpdated, lightsBufferCount, lightsError>>
    /\ UNCHANGED otherThanLights

\* SceneFrameData::update(commandList, camera, config, frameIndex), the light and shadow
\* part: removed lights, shadow casting of every light, the shadow map descriptors, the
\* lights buffer. The render passes read materialsUpdated and clear it.
Update ==
    \E removedOrder \in Orders(removedLights) :
      \E order \in Orders(lights \ removedLights) :
        LET removed == DisableAll([ShadowState EXCEPT !.lightsError = "none"], removedOrder)
            cast == ReevaluateAll(removed, order)
            remaining == lights \ removedLights
            tooMany == /\ cast.lightsError = "none"
                       /\ remaining # {}
                       /\ Cardinality(remaining) > lightsBufferCount
                       /\ lightsBufferCount >= MaxLights
        IN  /\ lights' = remaining
            /\ removedLights' = {}
            /\ SetShadowState(
                   IF cast.lightsError # "none" THEN cast
                   ELSE [cast EXCEPT !.shadowMapsUpdated = FALSE,
                                     !.lightsError = IF tooMany THEN "Too many lights"
                                                     ELSE "none"])
            /\ lightsBufferCount' =
                   IF /\ cast.lightsError = "none"
                      /\ remaining # {}
                      /\ Cardinality(remaining) > lightsBufferCount
                      /\ ~tooMany
                   THEN Cardinality(remaining) ELSE lightsBufferCount
            /\ UNCHANGED castShadows
            /\ UNCHANGED otherThanLights

\* RenderTarget::render: the render passes rebuild their pipelines and
\* SceneFrameData::resetMaterialsUpdated() clears the flag
ResetMaterialsUpdated ==
    /\ materialsUpdated
    /\ materialsUpdated' = FALSE
    /\ UNCHANGED <<lights, removedLights, castShadows, shadowMaps, shadowMapIndex,
                   shadowMapRenderers, shadowMapsUpdated, lightsBufferCount, lightsError>>
    /\ UNCHANGED otherThanLights

(***************************************************************************)
(* Scene: addLight and removeLight, seen from one snapshot                 *)
(***************************************************************************)
\* Scene::Scene: no light was removed
SceneLightsIdle == lightRemoval = [light \in Lights |-> "none"]

\* Scene::addLight(light): frame.scene->addLight(&light) on the snapshot
SceneAddLight(light) ==
    /\ AddLight(light)
    /\ lightRemoval' = [lightRemoval EXCEPT ![light] = "none"]

\* Scene::removeLight(light), for a light of the scene: the loop over the frames calls
\* frame.scene->addLight(&light)
SceneRemoveLight(light) ==
    /\ light \in lights
    /\ AddLight(light)
    /\ lightRemoval' = [lightRemoval EXCEPT ![light] = "removed"]

\* SceneFrameData::update of the snapshot; when it returns, every light removed so far
\* has seen one update
SceneUpdate ==
    /\ Update
    /\ lightRemoval' = [light \in Lights |->
                           IF lightRemoval[light] = "removed" /\ lightsError' = "none"
                           THEN "updated" ELSE lightRemoval[light]]

(***************************************************************************)
(* Scene and the mesh instances of its snapshots                           *)
(***************************************************************************)
NumMeshInstances == 2               \* mesh instances of the application
FramesInFlight == 2                 \* ctx.config.framesInFlight
MaxAsyncNodesUpdatedPerFrame == 0   \* config.asyncObjectUpdatesPerFrame
MaxMeshInstancesPerScene == 2       \* config.maxMeshInstances

MeshInstances == 1..NumMeshInstances
Frames == 0..(FramesInFlight - 1)

SceneLast(op, frame) == [op |-> op, frame |-> frame]

\* Scene::Scene and SceneFrameData::SceneFrameData for every frame in flight
SceneInit ==
    /\ meshInstances = {}
    /\ updatedNodes = {}
    /\ addedNodes = [frame \in Frames |-> {}]
    /\ addedNodesAsync = [frame \in Frames |-> {}]
    /\ removedNodes = [frame \in Frames |-> {}]
    /\ removedNodesAsync = [frame \in Frames |-> {}]
    /\ meshInstancesDataMemoryBlocks = [frame \in Frames |-> <<>>]
    /\ meshInstancesFreeBlocs =
           [frame \in Frames |-> <<MemoryBlock(0, 0, InstanceSize * MaxMeshInstancesPerScene)>>]
    /\ meshInstancesDataUpdated = [frame \in Frames |-> FALSE]
    /\ sceneFailed = "none"
    /\ sceneLast = SceneLast("init", 0)
    /\ asyncUsed = FALSE
    /\ staleData = [frame \in Frames |-> {}]

\* Scene::addInstance(meshInstance, async)
SceneAddInstance(meshInstance, async) ==
    /\ sceneFailed = "none"
    /\ meshInstance \notin meshInstances
    /\ meshInstances' = meshInstances \cup {meshInstance}
    /\ IF async
       THEN /\ addedNodesAsync' = [frame \in Frames |-> addedNodesAsync[frame] \cup {meshInstance}]
            /\ UNCHANGED addedNodes
       ELSE /\ addedNodes' = [frame \in Frames |-> addedNodes[frame] \cup {meshInstance}]
            /\ UNCHANGED addedNodesAsync
    /\ asyncUsed' = (asyncUsed \/ async)
    /\ sceneLast' = SceneLast("call", 0)
    /\ UNCHANGED <<updatedNodes, removedNodes, removedNodesAsync, meshInstancesDataMemoryBlocks,
                   meshInstancesFreeBlocs, meshInstancesDataUpdated, sceneFailed, staleData>>
    /\ UNCHANGED otherThanScene

\* Scene::updateInstance(meshInstance), called when the data of the instance changed:
\* the records the snapshots hold for it are now older than its data
SceneUpdateInstance(meshInstance) ==
    /\ sceneFailed = "none"
    /\ meshInstance \in meshInstances
    /\ updatedNodes' = updatedNodes \cup {meshInstance}
    /\ staleData' = [frame \in Frames |->
           IF meshInstance \in DOMAIN meshInstancesDataMemoryBlocks[frame]
           THEN staleData[frame] \cup {meshInstance} ELSE staleData[frame]]
    /\ sceneLast' = SceneLast("call", 0)
    /\ UNCHANGED <<meshInstances, addedNodes, addedNodesAsync, removedNodes, removedNodesAsync,
                   meshInstancesDataMemoryBlocks, meshInstancesFreeBlocs,
                   meshInstancesDataUpdated, sceneFailed, asyncUsed>>
    /\ UNCHANGED otherThanScene

\* Scene::removeInstance(meshInstance, async)
SceneRemoveInstance(meshInstance, async) ==
    /\ sceneFailed = "none"
    /\ meshInstance \in meshInstances
    /\ meshInstances' = meshInstances \ {meshInstance}
    /\ IF async
       THEN /\ removedNodesAsync' =
                   [frame \in Frames |-> removedNodesAsync[frame] \cup {meshInstance}]
            /\ UNCHANGED removedNodes
       ELSE /\ removedNodes' = [frame \in Frames |-> removedNodes[frame] \cup {meshInstance}]
            /\ UNCHANGED removedNodesAsync
    /\ asyncUsed' = (asyncUsed \/ async)
    /\ sceneLast' = SceneLast("call", 0)
    /\ UNCHANGED <<updatedNodes, addedNodes, addedNodesAsync, meshInstancesDataMemoryBlocks,
                   meshInstancesFreeBlocs, meshInstancesDataUpdated, sceneFailed, staleData>>
    /\ UNCHANGED otherThanScene

\* what one processDeferredOperations call reads and writes
DrainState(frame) ==
    [blocks |-> meshInstancesDataMemoryBlocks[frame],
     freeBlocs |-> meshInstancesFreeBlocs[frame],
     dataUpdated |-> meshInstancesDataUpdated[frame],
     updated |-> updatedNodes,
     removedAsync |-> removedNodesAsync[frame],
     addedAsync |-> addedNodesAsync[frame],
     failed |-> "none",
     calls |-> <<>>,
     stale |-> staleData[frame]]

\* the snapshot call made on a mesh instance, kept in the order of the calls
Called(st, op, meshInstance) ==
    [st EXCEPT !.calls = Append(@, [op |-> op, meshInstance |-> meshInstance])]

\* SceneFrameData::addInstance(meshInstance), the mesh instance record: the assertion,
\* alloc(1) and the write of the instance data
SnapshotAddInstance(st, meshInstance) ==
    IF st.failed # "none" THEN st
    ELSE LET called == Called(st, "addInstance", meshInstance)
         IN  IF meshInstance \in DOMAIN st.blocks
             THEN [called EXCEPT !.failed = "addInstance: Mesh instance already in the scene"]
             ELSE IF AllocScan(st.freeBlocs, 1, InstanceSize) = 0
             THEN [called EXCEPT !.failed = "Out of memory"]
             ELSE [called EXCEPT !.blocks = (meshInstance :> AllocResult(st.freeBlocs, 1)) @@ @,
                                 !.freeBlocs = AllocFreeList(@, 1),
                                 !.dataUpdated = TRUE,
                                 !.stale = @ \ {meshInstance}]

\* a removeInstance that forgets the record of the instance without freeing its block
SnapshotRemoveInstanceKeepBlock(st, meshInstance) ==
    IF st.failed # "none" THEN st
    ELSE LET called == Called(st, "removeInstance", meshInstance)
         IN  IF meshInstance \notin DOMAIN st.blocks
             THEN [called EXCEPT
                      !.failed = "removeInstance: MeshInstance does not belong to the scene"]
             ELSE [called EXCEPT !.blocks = [mi \in DOMAIN @ \ {meshInstance} |-> @[mi]],
                                 !.dataUpdated = TRUE,
                                 !.stale = @ \ {meshInstance}]

\* SceneFrameData::removeInstance(meshInstance): the assertion, free of the record
SnapshotRemoveInstance(st, meshInstance) ==
    IF st.failed # "none" THEN st
    ELSE LET called == Called(st, "removeInstance", meshInstance)
         IN  IF meshInstance \notin DOMAIN st.blocks
             THEN [called EXCEPT
                      !.failed = "removeInstance: MeshInstance does not belong to the scene"]
             ELSE [called EXCEPT !.freeBlocs = FreeList(@, st.blocks[meshInstance]),
                                 !.blocks = [mi \in DOMAIN @ \ {meshInstance} |-> @[mi]],
                                 !.dataUpdated = TRUE,
                                 !.stale = @ \ {meshInstance}]

\* SceneFrameData::updateInstance(meshInstance): the assertion, the write of the data
SnapshotUpdateInstance(st, meshInstance) ==
    IF st.failed # "none" THEN st
    ELSE LET called == Called(st, "updateInstance", meshInstance)
         IN  IF meshInstance \notin DOMAIN st.blocks
             THEN [called EXCEPT
                      !.failed = "updateInstance: MeshInstance does not belong to the scene"]
             ELSE [called EXCEPT !.dataUpdated = TRUE, !.stale = @ \ {meshInstance}]

\* after a snapshot call that returned: updatedNodes.erase(mi)
EraseUpdated(st, meshInstance) ==
    IF st.failed # "none" THEN st ELSE [st EXCEPT !.updated = @ \ {meshInstance}]

\* processDeferredOperations, the loop over removedNodes
RECURSIVE DrainRemoved(_, _)
DrainRemoved(st, order) ==
    IF order = <<>> THEN st
    ELSE DrainRemoved(EraseUpdated(SnapshotRemoveInstance(st, Head(order)), Head(order)),
                      Tail(order))

\* processDeferredOperations, the loop over removedNodesAsync: it leaves after
\* count > maxAsyncNodesUpdatedPerFrame
RECURSIVE DrainRemovedAsync(_, _, _)
DrainRemovedAsync(st, order, count) ==
    IF order = <<>> \/ st.failed # "none" THEN st
    ELSE LET removed == EraseUpdated(SnapshotRemoveInstance(st, Head(order)), Head(order))
             erased == IF removed.failed # "none" THEN removed
                       ELSE [removed EXCEPT !.removedAsync = @ \ {Head(order)}]
         IN  IF count + 1 > MaxAsyncNodesUpdatedPerFrame THEN erased
             ELSE DrainRemovedAsync(erased, Tail(order), count + 1)

\* a loop over addedNodes that refreshes each instance as soon as it is added
RECURSIVE DrainAddedUpdating(_, _)
DrainAddedUpdating(st, order) ==
    IF order = <<>> THEN st
    ELSE DrainAddedUpdating(
             SnapshotUpdateInstance(
                 EraseUpdated(SnapshotAddInstance(st, Head(order)), Head(order)), Head(order)),
             Tail(order))

\* processDeferredOperations, the loop over addedNodes
RECURSIVE DrainAdded(_, _)
DrainAdded(st, order) ==
    IF order = <<>> THEN st
    ELSE DrainAdded(EraseUpdated(SnapshotAddInstance(st, Head(order)), Head(order)),
                    Tail(order))

\* processDeferredOperations, the loop over addedNodesAsync
RECURSIVE DrainAddedAsync(_, _, _)
DrainAddedAsync(st, order, count) ==
    IF order = <<>> \/ st.failed # "none" THEN st
    ELSE LET added == EraseUpdated(SnapshotAddInstance(st, Head(order)), Head(order))
             erased == IF added.failed # "none" THEN added
                       ELSE [added EXCEPT !.addedAsync = @ \ {Head(order)}]
         IN  IF count + 1 > MaxAsyncNodesUpdatedPerFrame THEN erased
             ELSE DrainAddedAsync(erased, Tail(order), count + 1)

\* processDeferredOperations, the loop over updatedNodes
RECURSIVE DrainUpdated(_, _)
DrainUpdated(st, order) ==
    IF order = <<>> THEN st
    ELSE DrainUpdated(SnapshotUpdateInstance(st, Head(order)), Tail(order))

\* Scene::processDeferredOperations(frameIndex); each loop visits its set in some order,
\* and the call ends at the first snapshot call that fails
ProcessDeferredOperations(frame) ==
    /\ sceneFailed = "none"
    /\ \E removedOrder \in Orders(removedNodes[frame]),
          removedAsyncOrder \in Orders(removedNodesAsync[frame]),
          addedOrder \in Orders(addedNodes[frame]),
          addedAsyncOrder \in Orders(addedNodesAsync[frame]) :
         LET removed == DrainRemoved(DrainState(frame), removedOrder)
             removedAsync == DrainRemovedAsync(removed, removedAsyncOrder, 0)
             added == DrainAdded(removedAsync, addedOrder)
             addedAsync == DrainAddedAsync(added, addedAsyncOrder, 0)
         IN  \E updatedOrder \in Orders(addedAsync.updated) :
               LET done == DrainUpdated(addedAsync, updatedOrder)
               IN  /\ removedNodes' = [removedNodes EXCEPT
                          ![frame] = IF removed.failed = "none" THEN {} ELSE @]
                   /\ removedNodesAsync' = [removedNodesAsync EXCEPT ![frame] = done.removedAsync]
                   /\ addedNodes' = [addedNodes EXCEPT
                          ![frame] = IF added.failed = "none" THEN {} ELSE @]
                   /\ addedNodesAsync' = [addedNodesAsync EXCEPT ![frame] = done.addedAsync]
                   /\ updatedNodes' = done.updated
                   /\ meshInstancesDataMemoryBlocks' =
                          [meshInstancesDataMemoryBlocks EXCEPT ![frame] = done.blocks]
                   /\ meshInstancesFreeBlocs' =
                          [meshInstancesFreeBlocs EXCEPT ![frame] = done.freeBlocs]
                   /\ meshInstancesDataUpdated' =
                          [meshInstancesDataUpdated EXCEPT ![frame] = done.dataUpdated]
                   /\ sceneFailed' = done.failed
                   /\ staleData' = [staleData EXCEPT ![frame] = done.stale]
                   /\ sceneLast' = SceneLast("processDeferredOperations", frame)
                                        @@ [calls |-> done.calls]
    /\ UNCHANGED <<meshInstances, asyncUsed>>
    /\ UNCHANGED otherThanScene

(***************************************************************************)
(* GraphicPipelineData: one pipeline batch of the snapshot of frame 0      *)
(***************************************************************************)
MaxMeshSurfacePerPipeline == 4   \* config.maxMeshSurfacePerPipeline
PipelineId == 1                  \* GraphicPipelineData::pipelineId of the batch
OtherPipelineId == 2             \* the pipeline id of the materials of another batch
NoBuffer == 0                    \* drawCommandsStagingBuffer == nullptr
BatchFrame == 0                  \* the frame whose snapshot owns the batch
NumBatchInstances == 3           \* mesh instances the application adds to the snapshot

\* the size in bytes of the staging buffer of instancesArray: stagingInstanceCount
\* (maxMeshSurfacePerPipeline) records of sizeof(InstanceData) bytes
InstancesStagingSize == InstanceSize * MaxMeshSurfacePerPipeline

BatchInstances == 1..NumBatchInstances

\* material.getPipelineId() for each surface of the mesh of a mesh instance, in surface
\* order: every mesh has a surface of the batch, odd instances have a first surface of
\* another pipeline
SurfacePipelines(meshInstance) ==
    IF meshInstance % 2 = 1
    THEN <<OtherPipelineId, PipelineId>>
    ELSE <<PipelineId, PipelineId>>

\* DrawCommand; meshInstance and surface stand for the index data of the surface and for
\* the InstanceData written at instanceIndex
DrawCommand(meshInstance, surface, id) ==
    [meshInstance |-> meshInstance, surface |-> surface,
     instanceIndex |-> id, instanceCount |-> 1, firstInstance |-> id]

\* GraphicPipelineData::GraphicPipelineData
PipelineInit ==
    /\ instancesMemoryBlocks = <<>>
    /\ instancesFreeBlocs = <<MemoryBlock(0, 0, InstanceSize * MaxMeshSurfacePerPipeline)>>
    /\ drawCommands = <<>>
    /\ instancesToRemove = {}
    /\ instancesUpdated = FALSE
    /\ drawCommandsStagingBuffer = NoBuffer
    /\ drawCommandsStagingBufferCount = 0
    /\ drawCommandsStagingBufferRecycleBin = {}
    /\ stagingBuffersCreated = 0
    /\ releasedBuffers = {}
    /\ pipelineError = "none"
    /\ instancesStaged = 0
    /\ stagingOverflow = FALSE

\* drawCommandsCount
DrawCommandsCount == Len(drawCommands)

\* an addInstance loop that numbers the draw commands by surface index
RECURSIVE AddDrawCommandsBySurface(_, _, _, _, _)
AddDrawCommandsBySurface(list, meshInstance, instanceMemoryBlock, i, written) ==
    IF i > Len(SurfacePipelines(meshInstance)) THEN list
    ELSE IF SurfacePipelines(meshInstance)[i] = PipelineId
    THEN AddDrawCommandsBySurface(
             Append(list, DrawCommand(meshInstance, i,
                                      instanceMemoryBlock.instanceIndex + (i - 1))),
             meshInstance, instanceMemoryBlock, i + 1, written + 1)
    ELSE AddDrawCommandsBySurface(list, meshInstance, instanceMemoryBlock, i + 1, written)

\* GraphicPipelineData::addInstance(meshInstance, instanceMemoryBlock, ...): the loop over
\* the surfaces from surface i on, `written` being instancesData.size(); the result is the
\* draw list
RECURSIVE AddDrawCommands(_, _, _, _, _)
AddDrawCommands(list, meshInstance, instanceMemoryBlock, i, written) ==
    IF i > Len(SurfacePipelines(meshInstance)) THEN list
    ELSE IF SurfacePipelines(meshInstance)[i] = PipelineId
    THEN AddDrawCommands(
             Append(list, DrawCommand(meshInstance, i,
                                      instanceMemoryBlock.instanceIndex + written)),
             meshInstance, instanceMemoryBlock, i + 1, written + 1)
    ELSE AddDrawCommands(list, meshInstance, instanceMemoryBlock, i + 1, written)

\* the surfaces of the mesh instance whose material belongs to the batch
BatchSurfaces(meshInstance) ==
    {i \in DOMAIN SurfacePipelines(meshInstance) : SurfacePipelines(meshInstance)[i] = PipelineId}

\* GraphicPipelineData::addInstance(meshInstance, instanceMemoryBlock, ...), its last
\* statement: when the mesh instance has a surface of the batch, instancesArray.write
\* copies instanceMemoryBlock.size bytes to the staging buffer at
\* stagingBufferCurrentOffset and advances the offset by as much; the result is the offset
StagedAfterWrite(offset, meshInstance, instanceMemoryBlock) ==
    IF BatchSurfaces(meshInstance) # {} THEN offset + instanceMemoryBlock.size ELSE offset

\* the variables of the snapshot of the batch take the values of the record
SetSnapshot(st) ==
    /\ meshInstancesDataMemoryBlocks' =
           [meshInstancesDataMemoryBlocks EXCEPT ![BatchFrame] = st.blocks]
    /\ meshInstancesFreeBlocs' = [meshInstancesFreeBlocs EXCEPT ![BatchFrame] = st.freeBlocs]
    /\ meshInstancesDataUpdated' =
           [meshInstancesDataUpdated EXCEPT ![BatchFrame] = st.dataUpdated]
    /\ UNCHANGED <<meshInstances, updatedNodes, addedNodes, addedNodesAsync, removedNodes,
                   removedNodesAsync, sceneFailed, sceneLast, asyncUsed, staleData>>

\* SceneFrameData::addInstance(meshInstance) on a mesh instance the snapshot does not hold:
\* the record of the instance, then GraphicPipelineData::addInstance on the batch, which
\* allocates a block of one instance per surface of the mesh and appends the draw commands
FrameAddInstance(meshInstance) ==
    /\ pipelineError = "none"
    /\ meshInstance \notin DOMAIN meshInstancesDataMemoryBlocks[BatchFrame]
    /\ LET st == SnapshotAddInstance(DrainState(BatchFrame), meshInstance)
           count == Len(SurfacePipelines(meshInstance))
           fits == AllocScan(instancesFreeBlocs, 1, count * InstanceSize) # 0
           instanceMemoryBlock == AllocResult(instancesFreeBlocs, count)
       IN  /\ SetSnapshot(st)
           /\ IF st.failed # "none" \/ ~fits
              THEN /\ pipelineError' = "Out of memory"
                   /\ UNCHANGED <<instancesMemoryBlocks, instancesFreeBlocs, drawCommands,
                                  instancesUpdated, instancesStaged, stagingOverflow>>
              ELSE /\ instancesFreeBlocs' = AllocFreeList(instancesFreeBlocs, count)
                   /\ instancesMemoryBlocks' =
                          [mi \in DOMAIN instancesMemoryBlocks \cup {meshInstance} |->
                              IF mi = meshInstance THEN instanceMemoryBlock
                              ELSE instancesMemoryBlocks[mi]]
                   /\ drawCommands' =
                          AddDrawCommands(drawCommands, meshInstance, instanceMemoryBlock, 1, 0)
                   /\ instancesUpdated' =
                          (instancesUpdated \/ BatchSurfaces(meshInstance) # {})
                   /\ instancesStaged' =
                          StagedAfterWrite(instancesStaged, meshInstance, instanceMemoryBlock)
                   /\ stagingOverflow' =
                          (stagingOverflow \/ instancesStaged' > InstancesStagingSize)
                   /\ UNCHANGED pipelineError
    /\ UNCHANGED <<instancesToRemove, drawCommandsStagingBuffer,
                   drawCommandsStagingBufferCount, drawCommandsStagingBufferRecycleBin,
                   stagingBuffersCreated, releasedBuffers>>
    /\ UNCHANGED otherThanPipeline

\* SceneFrameData::removeInstance(meshInstance) on a mesh instance of the snapshot:
\* GraphicPipelineData::removeInstance marks the instance, then the record is freed
FrameRemoveInstance(meshInstance) ==
    /\ pipelineError = "none"
    /\ meshInstance \in DOMAIN meshInstancesDataMemoryBlocks[BatchFrame]
    /\ instancesToRemove' = IF meshInstance \in DOMAIN instancesMemoryBlocks
                            THEN instancesToRemove \cup {meshInstance}
                            ELSE instancesToRemove
    /\ SetSnapshot(SnapshotRemoveInstance(DrainState(BatchFrame), meshInstance))
    /\ UNCHANGED <<instancesMemoryBlocks, instancesFreeBlocs, drawCommands, instancesUpdated,
                   drawCommandsStagingBuffer, drawCommandsStagingBufferCount,
                   drawCommandsStagingBufferRecycleBin, stagingBuffersCreated,
                   releasedBuffers, pipelineError, instancesStaged, stagingOverflow>>
    /\ UNCHANGED otherThanPipeline

\* what one updateData call reads and writes
PipelineState ==
    [blocks |-> instancesMemoryBlocks,
     freeBlocs |-> instancesFreeBlocs,
     commands |-> drawCommands,
     updated |-> instancesUpdated,
     buffer |-> drawCommandsStagingBuffer,
     count |-> drawCommandsStagingBufferCount,
     bin |-> drawCommandsStagingBufferRecycleBin,
     created |-> stagingBuffersCreated,
     staged |-> instancesStaged,
     overflow |-> stagingOverflow,
     error |-> "none"]

\* GraphicPipelineData::updateData, the loop over instancesToRemove: the block of each
\* instance is freed, the instance forgotten and drawCommandsCount set to 0
RECURSIVE FreeRemoved(_, _)
FreeRemoved(pd, order) ==
    IF order = <<>> THEN pd
    ELSE FreeRemoved(
             [pd EXCEPT !.freeBlocs = FreeList(@, pd.blocks[Head(order)]),
                        !.blocks = Erase(@, Head(order)),
                        !.commands = <<>>],
             Tail(order))

\* GraphicPipelineData::updateData, the loop over the keys of instancesMemoryBlocks that
\* adds the remaining instances again with the block they hold
RECURSIVE AddRemaining(_, _)
AddRemaining(pd, order) ==
    IF order = <<>> THEN pd
    ELSE AddRemaining(
             [pd EXCEPT !.commands = AddDrawCommands(@, Head(order), pd.blocks[Head(order)], 1, 0),
                        !.updated = (@ \/ BatchSurfaces(Head(order)) # {}),
                        !.staged = StagedAfterWrite(@, Head(order), pd.blocks[Head(order)]),
                        !.overflow = (@ \/ StagedAfterWrite(pd.staged, Head(order),
                                                            pd.blocks[Head(order)])
                                             > InstancesStagingSize)],
             Tail(order))

\* an upload that replaces the staging buffer without keeping the old one
UploadDropOld(pd) ==
    IF ~pd.updated THEN pd
    ELSE IF pd.count < Len(pd.commands)
    THEN [pd EXCEPT !.buffer = pd.created + 1,
                    !.created = @ + 1,
                    !.count = Len(pd.commands),
                    !.updated = FALSE,
                    !.staged = 0]
    ELSE IF pd.buffer = NoBuffer
    THEN [pd EXCEPT !.error = "drawCommandsStagingBuffer is null", !.staged = 0]
    ELSE [pd EXCEPT !.updated = FALSE, !.staged = 0]

\* GraphicPipelineData::updateData, the part under if (instancesUpdated): the staging
\* buffer is replaced by one of drawCommandsCount commands when it is too small, the one
\* it replaces going to the recycle bin, and the draw commands are written to it
Upload(pd) ==
    IF ~pd.updated THEN pd
    ELSE IF pd.count < Len(pd.commands)
    THEN [pd EXCEPT !.bin = IF pd.buffer # NoBuffer THEN @ \cup {pd.buffer} ELSE @,
                    !.buffer = pd.created + 1,
                    !.created = @ + 1,
                    !.count = Len(pd.commands),
                    !.updated = FALSE,
                    !.staged = 0]
    ELSE IF pd.buffer = NoBuffer
    THEN [pd EXCEPT !.error = "drawCommandsStagingBuffer is null", !.staged = 0]
    ELSE [pd EXCEPT !.updated = FALSE, !.staged = 0]

\* GraphicPipelineData::updateData, for given iteration orders of its two loops
UpdateData(pd, removeOrder, addOrder) ==
    IF removeOrder = <<>> THEN Upload(pd)
    ELSE Upload(AddRemaining(FreeRemoved(pd, removeOrder), addOrder))

\* SceneFrameData::update of the snapshot: the recycle bin is cleared, which drops the last
\* reference to the buffers in it, the mesh instance data is flushed, and updateData runs
\* on the batch
FrameUpdate ==
    /\ pipelineError = "none"
    /\ \E removeOrder \in Orders(instancesToRemove),
          addOrder \in Orders(DOMAIN instancesMemoryBlocks \ instancesToRemove) :
         LET pd == UpdateData([PipelineState EXCEPT !.bin = {}], removeOrder, addOrder)
         IN  /\ instancesMemoryBlocks' = pd.blocks
             /\ instancesFreeBlocs' = pd.freeBlocs
             /\ drawCommands' = pd.commands
             /\ instancesUpdated' = pd.updated
             /\ drawCommandsStagingBuffer' = pd.buffer
             /\ drawCommandsStagingBufferCount' = pd.count
             /\ drawCommandsStagingBufferRecycleBin' = pd.bin
             /\ stagingBuffersCreated' = pd.created
             /\ instancesStaged' = pd.staged
             /\ stagingOverflow' = pd.overflow
             /\ pipelineError' \in
                    IF pd.overflow /\ ~stagingOverflow
                    THEN {pd.error, "Write past the end of the staging buffer"}
                    ELSE {pd.error}
    /\ releasedBuffers' = releasedBuffers \cup drawCommandsStagingBufferRecycleBin
    /\ instancesToRemove' = {}
    /\ SetSnapshot([DrainState(BatchFrame) EXCEPT !.dataUpdated = FALSE])
    /\ UNCHANGED otherThanPipeline

(***************************************************************************)
(* FrustumCulling: the culling dispatch of one pipeline batch              *)
(***************************************************************************)
\* the largest drawCommandsCount passed to dispatch: the capacity of the draw list
MaxDrawCommandsCount == MaxMeshSurfacePerPipeline

ResourceStates == {"INDIRECT_DRAW", "COPY_DST", "COPY_SRC", "COMPUTE_READ", "COMPUTE_WRITE"}
CullingBuffers == {"input", "output", "counter"}
CounterValues == 0..MaxDrawCommandsCount

\* commandList.barrier(buffer, oldState, newState)
Barrier(buffer, oldState, newState) ==
    [op |-> "barrier", buffer |-> buffer, oldState |-> oldState, newState |-> newState]

\* commandList.copy(source, destination) and commandList.dispatch(...)
Copy(source, destination) == [op |-> "copy", source |-> source, destination |-> destination]
DispatchCompute(drawCommandsCount) == [op |-> "dispatch", drawCommandsCount |-> drawCommandsCount]

\* the clear of the counter at the head of FrustumCulling::dispatch
ClearCounterCommands ==
    << Barrier("counter", "INDIRECT_DRAW", "COPY_DST"),
       Copy("commandClearCounterBuffer", "counter"),
       Barrier("counter", "COPY_DST", "COMPUTE_WRITE") >>

\* the culling and the download of the counter in FrustumCulling::dispatch
CullCommands(drawCommandsCount) ==
    << Barrier("input", "INDIRECT_DRAW", "COMPUTE_READ"),
       Barrier("output", "INDIRECT_DRAW", "COMPUTE_WRITE"),
       DispatchCompute(drawCommandsCount),
       Barrier("output", "COMPUTE_WRITE", "INDIRECT_DRAW"),
       Barrier("input", "COMPUTE_READ", "INDIRECT_DRAW"),
       Barrier("counter", "COMPUTE_WRITE", "COPY_SRC"),
       Copy("counter", "downloadCounterBuffer"),
       Barrier("counter", "COPY_SRC", "INDIRECT_DRAW") >>

\* a dispatch that returns on drawCommandsCount == 0 before it records anything
DispatchCommandsReturnFirst(drawCommandsCount) ==
    IF drawCommandsCount = 0 THEN <<>>
    ELSE ClearCounterCommands \o CullCommands(drawCommandsCount)

\* the commands FrustumCulling::dispatch records, in order
DispatchCommands(drawCommandsCount) ==
    IF drawCommandsCount = 0 THEN ClearCounterCommands
    ELSE ClearCounterCommands \o CullCommands(drawCommandsCount)

\* what the commands of a command list read and write
CullingState ==
    [counter |-> counterValue,
     download |-> downloadCounterValue,
     state |-> resourceState,
     mismatch |-> barrierMismatch,
     unordered |-> {}]

\* the states one command can leave. A barrier moves its buffer to newState; when the
\* buffer was not in oldState the accesses that follow are not ordered after the earlier
\* ones, so a copy into the buffer may be lost. The culling shader adds one to the counter
\* for each draw command it keeps
Execute(st, c) ==
    IF c.op = "barrier"
    THEN {[st EXCEPT !.state[c.buffer] = c.newState,
                     !.mismatch = (@ \/ st.state[c.buffer] # c.oldState),
                     !.unordered = IF st.state[c.buffer] # c.oldState
                                   THEN @ \cup {c.buffer} ELSE @ \ {c.buffer}]}
    ELSE IF c.op = "copy" /\ c.destination = "counter"
    THEN {[st EXCEPT !.counter = 0]} \cup (IF "counter" \in st.unordered THEN {st} ELSE {})
    ELSE IF c.op = "copy"
    THEN {[st EXCEPT !.download = st.counter]}
    ELSE {[st EXCEPT !.counter = kept] :
              kept \in {k \in CounterValues : /\ k >= st.counter
                                              /\ k <= st.counter + c.drawCommandsCount}}

\* the states a list of commands can leave when the device executes it in order
RECURSIVE ExecuteAll(_, _)
ExecuteAll(states, commands) ==
    IF commands = <<>> THEN states
    ELSE ExecuteAll(UNION {Execute(st, Head(commands)) : st \in states}, Tail(commands))

NoDispatch == [drawCommandsCount |-> -1, counter |-> 0, commands |-> <<>>]

\* FrustumCulling::FrustumCulling and the buffers of the batch: the buffers are in the
\* state dispatch expects on entry and hold what their memory held
CullingInit ==
    /\ counterValue \in CounterValues
    /\ downloadCounterValue \in CounterValues
    /\ resourceState = [buffer \in CullingBuffers |-> "INDIRECT_DRAW"]
    /\ barrierMismatch = FALSE
    /\ cullingLast = NoDispatch

\* the culling of a run that does not use it
CullingIdle ==
    /\ counterValue = 0
    /\ downloadCounterValue = 0
    /\ resourceState = [buffer \in CullingBuffers |-> "INDIRECT_DRAW"]
    /\ barrierMismatch = FALSE
    /\ cullingLast = NoDispatch

\* FrustumCulling::dispatch(commandList, drawCommandsCount, ...) and the execution of the
\* commands it records
Dispatch(drawCommandsCount) ==
    /\ \E st \in ExecuteAll({CullingState}, DispatchCommands(drawCommandsCount)) :
          /\ counterValue' = st.counter
          /\ downloadCounterValue' = st.download
          /\ resourceState' = st.state
          /\ barrierMismatch' = st.mismatch
    /\ cullingLast' = [drawCommandsCount |-> drawCommandsCount, counter |-> counterValue,
                       commands |-> DispatchCommands(drawCommandsCount)]
    /\ UNCHANGED otherThanCulling

\* FrustumCulling::getDrawCommandsCount(): the uint32 at the mapped address of
\* downloadCounterBuffer
GetDrawCommandsCount == downloadCounterValue

(***************************************************************************)
(* SceneFrameData: draw submission of the pipeline batch                   *)
(***************************************************************************)
MaxDrawCalls == 1   \* draw commands recorded on the command list of a run

\* no draw command is recorded yet
DrawInit == drawRecorded = <<>>

\* a draw submission that takes the pending instance data as uploaded
DrawModelsUploading(culledCount) ==
    /\ Len(drawRecorded) < MaxDrawCalls
    /\ DrawCommandsCount # 0 /\ culledCount # 0
    /\ drawRecorded' = Append(drawRecorded, DrawCommandsCount)
    /\ instancesUpdated' = FALSE
    /\ UNCHANGED <<instancesMemoryBlocks, instancesFreeBlocs, drawCommands, instancesToRemove,
                   drawCommandsStagingBuffer, drawCommandsStagingBufferCount,
                   drawCommandsStagingBufferRecycleBin, stagingBuffersCreated,
                   releasedBuffers, pipelineError, instancesStaged,
                   stagingOverflow>>
    /\ UNCHANGED <<memVars, queueVars, lightVars, sceneVars, cullingVars, sceneLightVars,
                   renderVars, arenaVars, frustumVars>>

\* SceneFrameData::drawModels on the batch, reached from drawOpaquesModels,
\* drawTransparentModels or drawShaderMaterialModels with culledCount the value
\* frustumCullingPipeline.getDrawCommandsCount() of the batch, or from the overload that
\* takes the culling pipelines of a shadow map pass with culledCount the value of that
\* pass: a batch with no draw command or no culled command is skipped, otherwise
\* drawIndexedIndirectCount is recorded with maxDrawCount = drawCommandsCount
DrawModels(culledCount) ==
    /\ Len(drawRecorded) < MaxDrawCalls
    /\ DrawCommandsCount # 0 /\ culledCount # 0
    /\ drawRecorded' = Append(drawRecorded, DrawCommandsCount)
    /\ UNCHANGED otherThanDraw

(***************************************************************************)
(* RenderTarget::render: the four submissions of a frame                   *)
(***************************************************************************)
NoSemaphore == "none"

\* ctx.graphicQueue->submit(...) of a command list of the frame: the semaphore it waits
\* on and the stage that waits, the semaphore it signals and the stage that signals
Submission(list, wait, waitStage, signal, signalStage) ==
    [list |-> list, wait |-> wait, waitStage |-> waitStage,
     signal |-> signal, signalStage |-> signalStage]

\* the submissions of a render call in which the prepare list waits for the update
RenderSubmissionsUnchained ==
    << Submission("update", NoSemaphore, "NONE", "updateSemaphore", "TRANSFER"),
       Submission("compute", "updateSemaphore", "COMPUTE_SHADER",
                  "computeSemaphore", "COMPUTE_SHADER"),
       Submission("prepare", "updateSemaphore", "VERTEX_INPUT",
                  "prepareSemaphore", "ALL_COMMANDS"),
       Submission("render", "prepareSemaphore", "VERTEX_INPUT", "inFlightFence", "NONE") >>

\* RenderTarget::render: the submit calls, in call order
RenderSubmissions ==
    << Submission("update", NoSemaphore, "NONE", "updateSemaphore", "TRANSFER"),
       Submission("compute", "updateSemaphore", "COMPUTE_SHADER",
                  "computeSemaphore", "COMPUTE_SHADER"),
       Submission("prepare", "computeSemaphore", "VERTEX_INPUT",
                  "prepareSemaphore", "ALL_COMMANDS"),
       Submission("render", "prepareSemaphore", "VERTEX_INPUT", "inFlightFence", "NONE") >>

CommandLists == {RenderSubmissions[i].list : i \in DOMAIN RenderSubmissions}

\* the submission of a command list
SubmissionOf(list) ==
    RenderSubmissions[CHOOSE i \in DOMAIN RenderSubmissions : RenderSubmissions[i].list = list]

\* the calls of a render call on the resources of its frame after acquire, in call order
RenderCalls ==
    << "commandAllocator.reset", "processDeferredOperations",
       "record update", "SceneFrameData.update", "submit update",
       "record compute", "submit compute", "record prepare", "submit prepare",
       "record render", "submit render", "present", "nextFrameIndex" >>

NoRender == [frame |-> 0, acquired |-> FALSE, calls |-> <<>>,
             before |-> [list \in CommandLists |-> "none"]]

\* RenderTarget::RenderTarget: the fences are created signalled, nothing is submitted
RenderTargetInit ==
    /\ submissionState = [frame \in Frames |-> [list \in CommandLists |-> "none"]]
    /\ semaphoreSignaled = {}
    /\ inFlightFence = [frame \in Frames |-> TRUE]
    /\ currentFrameIndex = 0
    /\ paused = FALSE
    /\ renderLast = NoRender

\* RenderTarget::setPause
SetPause(pause) ==
    /\ paused' = pause
    /\ UNCHANGED <<submissionState, semaphoreSignaled, inFlightFence, currentFrameIndex,
                   renderLast>>
    /\ UNCHANGED otherThanRender

\* a render call that goes on without waiting for the fence of the frame
AcquireWithoutWait(frame) == TRUE

\* swapChain->acquire(frame.inFlightFence): the call waits until the fence of the frame
\* is signalled
Acquire(frame) == inFlightFence[frame]

\* RenderTarget::render(): nothing when paused; acquire waits for the fence of the frame
\* and, when it succeeds, resets it; when it fails render returns. Otherwise the
\* allocator is reset, the snapshot of the frame is drained and updated, the four
\* command lists are recorded and submitted, and the frame index moves on
Render ==
    /\ UNCHANGED paused
    /\ UNCHANGED otherThanRender
    /\ IF paused
       THEN UNCHANGED <<submissionState, semaphoreSignaled, inFlightFence,
                        currentFrameIndex, renderLast>>
       ELSE \E acquired \in BOOLEAN :
            /\ Acquire(currentFrameIndex)
            /\ renderLast' = [frame |-> currentFrameIndex, acquired |-> acquired,
                              calls |-> IF acquired THEN <<"acquire">> \o RenderCalls
                                        ELSE <<"acquire">>,
                              before |-> submissionState[currentFrameIndex]]
            /\ IF acquired
               THEN /\ inFlightFence' = [inFlightFence EXCEPT ![currentFrameIndex] = FALSE]
                    /\ submissionState' = [submissionState EXCEPT
                           ![currentFrameIndex] = [list \in CommandLists |-> "submitted"]]
                    /\ currentFrameIndex' = (currentFrameIndex + 1) % FramesInFlight
                    /\ UNCHANGED semaphoreSignaled
               ELSE UNCHANGED <<submissionState, semaphoreSignaled, inFlightFence,
                                currentFrameIndex>>

\* the device starts a submitted command list: one that waits on a semaphore starts once
\* the semaphore is signalled, and the wait resets the semaphore. The queue does not
\* order the command lists of different submissions otherwise
GpuStart(frame, list) ==
    /\ submissionState[frame][list] = "submitted"
    /\ SubmissionOf(list).wait # NoSemaphore =>
           <<frame, SubmissionOf(list).wait>> \in semaphoreSignaled
    /\ submissionState' = [submissionState EXCEPT ![frame][list] = "running"]
    /\ semaphoreSignaled' = semaphoreSignaled \ {<<frame, SubmissionOf(list).wait>>}
    /\ UNCHANGED <<inFlightFence, currentFrameIndex, paused, renderLast>>
    /\ UNCHANGED otherThanRender

\* the device finishes a command list and signals the semaphore or the fence of its
\* submission
GpuFinish(frame, list) ==
    /\ submissionState[frame][list] = "running"
    /\ submissionState' = [submissionState EXCEPT ![frame][list] = "finished"]
    /\ IF SubmissionOf(list).signal = "inFlightFence"
       THEN /\ inFlightFence' = [inFlightFence EXCEPT ![frame] = TRUE]
            /\ UNCHANGED semaphoreSignaled
       ELSE /\ semaphoreSignaled' =
                   semaphoreSignaled \cup {<<frame, SubmissionOf(list).signal>>}
            /\ UNCHANGED inFlightFence
    /\ UNCHANGED <<currentFrameIndex, paused, renderLast>>
    /\ UNCHANGED otherThanRender

(***************************************************************************)
(* Frustum::extractPlanes and the culling test                             *)
(***************************************************************************)
\* float4 and float4x4 are tuples of numbers and of rows; matrix[i][j] of the source
\* is m[i + 1][j + 1]. The numbers are integers: the inputs are chosen so that every
\* product and sum of the computation is one
Dot4(a, b) == a[1] * b[1] + a[2] * b[2] + a[3] * b[3] + a[4] * b[4]

Column(m, j) == <<m[1][j], m[2][j], m[3][j], m[4][j]>>

\* mul(v, m) of a row vector and a matrix
MulVector(v, m) == [j \in 1..4 |-> Dot4(v, Column(m, j))]

\* mul(a, b) of two matrices
Mul(a, b) == [i \in 1..4 |-> MulVector(a[i], b)]

\* inverse(m) of a transform made of a rotation and a translation: the transposed
\* rotation, and the translation carried back through it
Inverse(m) ==
    [i \in 1..4 |->
        [j \in 1..4 |->
            IF i <= 3 /\ j <= 3 THEN m[j][i]
            ELSE IF i = 4 /\ j <= 3
                 THEN 0 - (m[4][1] * m[j][1] + m[4][2] * m[j][2] + m[4][3] * m[j][3])
            ELSE IF j = 4 /\ i = 4 THEN 1 ELSE 0]]

\* perspective(fov, aspect, znear, zfar) with fov = 90 degrees and aspect = 1, so that
\* f = 1, and zfar = 3 * znear, so that (zfar + znear) / zRange = -2 and
\* (2 * zfar * znear) / zRange = -3 * znear
Perspective(znear) ==
    << <<1, 0, 0, 0>>,
       <<0, 1, 0, 0>>,
       <<0, 0, 0 - 2, 0 - 1>>,
       <<0, 0, (0 - 3) * znear, 0>> >>

\* the transform of a camera at position, turned about the Y axis by a number of
\* quarter turns (cosine and sine of the angle are integers)
QuarterTurns == 0..3
Cosine(turns) == <<1, 0, 0 - 1, 0>>[turns + 1]
Sine(turns) == <<0, 1, 0, 0 - 1>>[turns + 1]
CameraTransform(turns, position) ==
    << <<Cosine(turns), 0, 0 - Sine(turns), 0>>,
       <<0, 1, 0, 0>>,
       <<Sine(turns), 0, Cosine(turns), 0>>,
       <<position[1], position[2], position[3], 1>> >>

\* Frustum::Plane::normalize: data is divided by the length of its xyz part. The plane
\* keeps the undivided data and the squared length it is divided by the root of
Normalize(data) ==
    [data |-> data, squaredLength |-> data[1] * data[1] + data[2] * data[2] + data[3] * data[3]]

PlaneNames == <<"LEFT", "RIGHT", "BOTTOM", "TOP", "NEAR", "FAR">>

\* an extraction that reads the rows of the matrix where the source reads its columns
ExtractPlanesFromRows(matrix) ==
    [i \in 1..6 |->
        LET axis == (i + 1) \div 2
            sign == IF i % 2 = 1 THEN 1 ELSE 0 - 1
        IN  Normalize([k \in 1..4 |-> matrix[4][k] + sign * matrix[axis][k]])]

\* Frustum::extractPlanes(planes, matrix): planes[0..5] are LEFT, RIGHT, BOTTOM, TOP,
\* NEAR, FAR; component k of a plane is matrix[k][3] plus (LEFT, BOTTOM, NEAR) or minus
\* (RIGHT, TOP, FAR) matrix[k][0], matrix[k][1] or matrix[k][2]; then every plane is
\* normalized
ExtractPlanes(matrix) ==
    [i \in 1..6 |->
        LET axis == (i + 1) \div 2
            sign == IF i % 2 = 1 THEN 1 ELSE 0 - 1
        IN  Normalize([k \in 1..4 |-> matrix[k][4] + sign * matrix[k][axis]])]

\* FrustumCulling::dispatch: global.viewMatrix = inverse(view) and the planes are
\* extracted from mul(global.viewMatrix, projection)
ViewProjection(view, projection) == Mul(Inverse(view), projection)

DispatchPlanes(view, projection) == ExtractPlanes(ViewProjection(view, projection))

\* the corners of an AABB {min, max}
Corners(aabb) ==
    {<<x, y, z, 1>> : x \in {aabb.min[1], aabb.max[1]}, y \in {aabb.min[2], aabb.max[2]},
                      z \in {aabb.min[3], aabb.max[3]}}

\* the sign of the distance of a point to a normalized plane; a plane of length 0
\* has no distance (the division gave no number) and no comparison with it holds
NotNegative(plane, point) == plane.squaredLength > 0 /\ Dot4(plane.data, point) >= 0

\* the test of the culling shader: a draw command is kept when the AABB of its
\* instance intersects the six half-spaces, that is when for every plane some corner
\* of the AABB is not behind it
Kept(planes, aabb) ==
    \A i \in 1..6 : \E corner \in Corners(aabb) : NotNegative(planes[i], corner)

\* the compacted output of the shader for the AABBs of the draw commands, in order
CulledOutput(planes, aabbs) == SelectSeq(aabbs, LAMBDA aabb : Kept(planes, aabb))

NotCulled == [dispatched |-> FALSE, commands |-> <<>>]

AABB(center, extent) ==
    [min |-> <<center[1] - extent, center[2] - extent, center[3] - extent>>,
     max |-> <<center[1] + extent, center[2] + extent, center[3] + extent>>]

\* the inputs of the dispatch calls of the runs
CameraPositions == {<<0, 0, 0>>, <<3, 0, 2>>}
CameraTurns == {0, 1}
NearDistances == {1, 2}
Centers == {<<x, y, z>> : x \in {0 - 6, 0, 6}, y \in {0 - 6, 0, 6}, z \in {0 - 9, 0 - 4, 0 - 1, 1, 4}}
Extents == {1}

\* nothing was dispatched
FrustumIdle ==
    /\ cullView = CameraTransform(0, <<0, 0, 0>>)
    /\ cullProjection = Perspective(1)
    /\ cullAABBs = <<>>
    /\ culledOutput = NotCulled

\* a camera, a projection and the AABBs of two draw commands
FrustumInit ==
    /\ \E turns \in CameraTurns, position \in CameraPositions :
          cullView = CameraTransform(turns, position)
    /\ \E znear \in NearDistances : cullProjection = Perspective(znear)
    /\ \E c1, c2 \in Centers, extent \in Extents :
          cullAABBs = <<AABB(c1, extent), AABB(c2, extent)>>
    /\ culledOutput = NotCulled

\* the dispatch of the culling shader on the draw commands and its output
Cull ==
    /\ culledOutput = NotCulled
    /\ culledOutput' =
           [dispatched |-> TRUE,
            commands |-> CulledOutput(DispatchPlanes(cullView, cullProjection), cullAABBs)]
    /\ UNCHANGED <<cullView, cullProjection, cullAABBs>>
    /\ UNCHANGED otherThanFrustum

(***************************************************************************)
(* Specifications                                                          *)
(***************************************************************************)
\* the components added after the pipeline batch, in a run that does not use them
RestIdle == CullingIdle /\ SceneLightsIdle /\ DrawInit /\ RenderTargetInit /\ ArenaIdle /\ FrustumIdle

\* the lights of a run that does not use them
LightsIdle == LightsInit /\ castShadows = [light \in Lights |-> FALSE]

NextMem ==
    \/ \E instanceCount \in AllocCounts : Alloc(instanceCount)
    \/ \E bloc \in BagToSet(allocated) : Free(bloc)

InitMem == MemInit /\ QueueInit(FALSE) /\ LightsIdle /\ SceneInit /\ PipelineInit /\ RestIdle

\* the arena under alloc and free
SpecMem == InitMem /\ [][NextMem]_vars

InitDev ==
    /\ StagingInit
    /\ \E counts \in DevInitAllocs :
          LET arena == AfterAllocs(MemoryArrayInit, EmptyBag, counts)
          IN  /\ freeBlocs = arena.freeBlocs
              /\ allocated = arena.allocated
    /\ QueueInit(FALSE)
    /\ LightsIdle /\ SceneInit /\ PipelineInit /\ RestIdle

NextDev ==
    \/ \E destination \in BagToSet(allocated) : Write(destination)
    \/ Flush

\* a staged arena holding allocated blocks, under write and flush
SpecDev == InitDev /\ [][NextDev]_vars

InitQueue ==
    /\ MemInit /\ LightsIdle /\ SceneInit /\ PipelineInit /\ RestIdle
    /\ \E dedicated \in BOOLEAN : QueueInit(dedicated)

NextQueue ==
    \/ \E t \in Callers, commandType \in CommandTypes : BeginCommand(t, commandType)
    \/ \E t \in Callers : CreateBuffer(t)
    \/ \E t \in Callers : EndCommandQueued(t)
    \/ \E t \in Callers : EndCommandImmediate(t)
    \/ WorkerLoop
    \/ WorkerCheck
    \/ WorkerBlock
    \/ WorkerSpuriousWakeup
    \/ WorkerPop
    \/ \E t \in Threads : SubmitWait(t)
    \/ \E t \in Threads : SubmitReset(t)
    \/ \E t \in Threads : SubmitRecycle(t)
    \/ \E t \in Threads : SubmitToQueue(t)
    \/ \E t \in Threads : SubmitSetPrevious(t)
    \/ \E id \in gpuExecuting : GpuComplete(id)

\* caller threads, the worker thread and the device, interleaved statement by statement
\* where no mutex orders them
SpecQueue == InitQueue /\ [][NextQueue]_vars

InitQueueWorker == MemInit /\ LightsIdle /\ SceneInit /\ PipelineInit /\ QueueInit(TRUE) /\ RestIdle

\* the steps of the worker thread inside run and submit
WorkerStep ==
    \/ WorkerLoop
    \/ WorkerCheck
    \/ WorkerBlock
    \/ WorkerPop
    \/ SubmitWait(Worker)
    \/ SubmitReset(Worker)
    \/ SubmitRecycle(Worker)
    \/ SubmitToQueue(Worker)
    \/ SubmitSetPrevious(Worker)

\* the device finishing some submitted command
GpuStep == \E id \in gpuExecuting : GpuComplete(id)

\* the steps of the destructor after quit = true
DestructorStep ==
    \/ DestructorNotify
    \/ DestructorJoin
    \/ DestructorRelease

NextQueueWorker ==
    \/ \E t \in Callers, commandType \in CommandTypes : BeginCommand(t, commandType)
    \/ \E t \in Callers : EndCommandQueued(t)
    \/ WorkerStep
    \/ WorkerSpuriousWakeup
    \/ GpuStep
    \/ DestructorSetQuit
    \/ DestructorStep

\* callers that queue their commands for the worker thread of a device with a dedicated
\* transfer queue, and the destruction of the queue. The worker thread, the device and the
\* thread running the destructor keep running when they can; callers may stop calling,
\* the destructor may never be called, and a spurious wakeup may never happen
SpecQueueWorker ==
    /\ InitQueueWorker
    /\ [][NextQueueWorker]_vars
    /\ WF_vars(WorkerStep)
    /\ WF_vars(GpuStep)
    /\ WF_vars(DestructorStep)

InitLights == MemInit /\ QueueInit(FALSE) /\ LightsInit /\ SceneInit /\ PipelineInit /\ RestIdle

NextLights ==
    \/ \E light \in Lights : AddLight(light) /\ UNCHANGED sceneLightVars
    \/ \E light \in Lights : RemoveLight(light) /\ UNCHANGED sceneLightVars
    \/ \E light \in Lights, value \in BOOLEAN :
          SetCastShadows(light, value) /\ UNCHANGED sceneLightVars
    \/ Update /\ UNCHANGED sceneLightVars
    \/ ResetMaterialsUpdated /\ UNCHANGED sceneLightVars

\* one snapshot's lights under addLight, removeLight, castShadows changes and update
SpecLights == InitLights /\ [][NextLights]_vars

InitScene == MemInit /\ QueueInit(FALSE) /\ LightsIdle /\ SceneInit /\ PipelineInit /\ RestIdle

NextScene ==
    \/ \E meshInstance \in MeshInstances : SceneAddInstance(meshInstance, FALSE)
    \/ \E meshInstance \in MeshInstances : SceneUpdateInstance(meshInstance)
    \/ \E meshInstance \in MeshInstances : SceneRemoveInstance(meshInstance, FALSE)
    \/ \E frame \in Frames : ProcessDeferredOperations(frame)

\* a scene under synchronous addInstance and removeInstance, updateInstance and the
\* per-frame processDeferredOperations
SpecScene == InitScene /\ [][NextScene]_vars

NextSceneAsync ==
    \/ \E meshInstance \in MeshInstances : SceneAddInstance(meshInstance, TRUE)
    \/ \E meshInstance \in MeshInstances : SceneRemoveInstance(meshInstance, TRUE)
    \/ \E frame \in Frames : ProcessDeferredOperations(frame)

\* a scene under asynchronous addInstance and removeInstance and the per-frame
\* processDeferredOperations
SpecSceneAsync == InitScene /\ [][NextSceneAsync]_vars

InitPipeline == MemInit /\ QueueInit(FALSE) /\ LightsIdle /\ SceneInit /\ PipelineInit /\ RestIdle

NextPipeline ==
    \/ \E meshInstance \in BatchInstances : FrameAddInstance(meshInstance)
    \/ \E meshInstance \in BatchInstances : FrameRemoveInstance(meshInstance)
    \/ FrameUpdate

\* one snapshot and one pipeline batch of it under addInstance, removeInstance and update
SpecPipeline == InitPipeline /\ [][NextPipeline]_vars

InitCulling ==
    /\ MemInit /\ QueueInit(FALSE) /\ LightsIdle /\ SceneInit /\ PipelineInit
    /\ CullingInit /\ SceneLightsIdle /\ DrawInit /\ RenderTargetInit /\ ArenaIdle /\ FrustumIdle

NextCulling == \E drawCommandsCount \in 0..MaxDrawCommandsCount : Dispatch(drawCommandsCount)

\* the culling buffers of one batch under a sequence of dispatch calls
SpecCulling == InitCulling /\ [][NextCulling]_vars

InitSceneLights == InitLights

NextSceneLights ==
    \/ \E light \in Lights : SceneAddLight(light)
    \/ \E light \in Lights : SceneRemoveLight(light)
    \/ \E light \in Lights, value \in BOOLEAN :
          SetCastShadows(light, value) /\ UNCHANGED sceneLightVars
    \/ SceneUpdate

\* the lights of one snapshot under Scene::addLight, Scene::removeLight, castShadows
\* changes and the update of the snapshot
SpecSceneLights == InitSceneLights /\ [][NextSceneLights]_vars

InitDraw == InitPipeline

NextDraw ==
    \/ \E meshInstance \in MeshInstances : FrameAddInstance(meshInstance)
    \/ \E meshInstance \in MeshInstances : FrameRemoveInstance(meshInstance)
    \/ FrameUpdate
    \/ \E culledCount \in CounterValues : DrawModels(culledCount)

\* one snapshot and its pipeline batch under addInstance, removeInstance, update and the
\* draw submissions, whatever count the culling downloaded
SpecDraw == InitDraw /\ [][NextDraw]_vars

InitRender == InitMem

NextRender ==
    \/ Render
    \/ \E pause \in BOOLEAN : SetPause(pause)
    \/ \E frame \in Frames, list \in CommandLists : GpuStart(frame, list)
    \/ \E frame \in Frames, list \in CommandLists : GpuFinish(frame, list)

\* the render calls of a render target and the device executing what they submit
SpecRender == InitRender /\ [][NextRender]_vars

InitArena == InitMem

NextArena ==
    \/ \E t \in ArenaThreads : ArenaCall(t, "alloc", ArenaAllocCount)
    \/ \E t \in ArenaThreads : \E bloc \in arenaHeld[t] : ArenaCall(t, "free", bloc)
    \/ \E t \in ArenaThreads : \E bloc \in arenaHeld[t] : ArenaCall(t, "write", bloc)
    \/ \E t \in ArenaThreads : ArenaCall(t, "flush", NoBlock)
    \/ \E t \in ArenaThreads : ArenaLock(t)
    \/ \E t \in ArenaThreads : ArenaRead(t)
    \/ \E t \in ArenaThreads : ArenaCommit(t)

\* two threads calling alloc, free, write and flush on one DeviceMemoryArray
SpecArena == InitArena /\ [][NextArena]_vars

InitFrustum ==
    /\ MemInit /\ QueueInit(FALSE) /\ LightsIdle /\ SceneInit /\ PipelineInit
    /\ CullingIdle /\ SceneLightsIdle /\ DrawInit /\ RenderTargetInit /\ ArenaIdle
    /\ FrustumInit

NextFrustum == Cull

\* one dispatch of the culling on two draw commands, for the cameras, projections and
\* AABBs of FrustumInit
SpecFrustum == InitFrustum /\ [][NextFrustum]_vars

(***************************************************************************)
(* Properties of MemoryArray (SpecMem) and DeviceMemoryArray (SpecDev)     *)
(***************************************************************************)
Bytes == 0..(Capacity - 1)

Covers(bloc, x) == bloc.offset <= x /\ x < bloc.offset + bloc.size

\* the bytes the blocks of a free list cover
FreeBytes(list) == {x \in Bytes : \E i \in DOMAIN list : Covers(list[i], x)}

\* how many free-list entries, and how many allocated blocks, cover byte x
FreeCover(x) == Cardinality({i \in DOMAIN freeBlocs : Covers(freeBlocs[i], x)})
AllocatedCover(x) ==
    BagCardinality([b \in {c \in BagToSet(allocated) : Covers(c, x)} |-> allocated[b]])

InArena(bloc) == bloc.offset >= 0 /\ bloc.size > 0 /\ bloc.offset + bloc.size <= Capacity

\* C1: between calls, the allocated blocks and the free-list blocks lie inside
\* [0, instanceSize * instanceCount), and every byte of that range belongs to exactly one
\* of them: no two blocks overlap and their union is the whole range.
C1_Tiling ==
    /\ \A i \in DOMAIN freeBlocs : InArena(freeBlocs[i])
    /\ \A b \in BagToSet(allocated) : InArena(b)
    /\ \A x \in Bytes : FreeCover(x) + AllocatedCover(x) = 1

\* alloc and free have both acted: blocks are held and the free list is in pieces
C1_Witness ==
    /\ memLast.op = "free"
    /\ Len(freeBlocs) >= 3
    /\ BagCardinality(allocated) >= 1

\* the least position of a list whose bloc holds size bytes (there is one)
FirstFit(list, size) ==
    CHOOSE i \in DOMAIN list :
        /\ list[i].size >= size
        /\ \A j \in 1..(i - 1) : list[j].size < size

Fits(list, size) == \E i \in DOMAIN list : list[i].size >= size

RemoveAt(list, i) == SubSeq(list, 1, i - 1) \o SubSeq(list, i + 1, Len(list))

\* C7: when some free block holds count * instanceSize bytes, alloc(count) returns
\* {offset / instanceSize, offset, count * instanceSize} at the start of the first such
\* block in list order; that block loses its front (or leaves the list when it fits
\* exactly) and every other free block stays as it was.
C7_FirstFit ==
    LET size == InstanceSize * memLast.count
        before == memLast.before
        i == FirstFit(before, size)
    IN  (memLast.op = "alloc" /\ Fits(before, size)) =>
            /\ ~memLast.oom
            /\ memLast.block = MemoryBlock(before[i].offset \div InstanceSize,
                                           before[i].offset, size)
            /\ IF before[i].size = size
               THEN freeBlocs = RemoveAt(before, i)
               ELSE /\ Len(freeBlocs) = Len(before)
                    /\ \A j \in DOMAIN before :
                          IF j = i
                          THEN /\ freeBlocs[j].offset = before[j].offset + size
                               /\ freeBlocs[j].size = before[j].size - size
                          ELSE freeBlocs[j] = before[j]

\* an alloc that skipped a block too small and split a later one
C7_Witness ==
    /\ memLast.op = "alloc"
    /\ ~memLast.oom
    /\ Len(memLast.before) >= 2
    /\ memLast.before[1].size < InstanceSize * memLast.count
    /\ Len(freeBlocs) = Len(memLast.before)

\* C8: alloc(count) throws "Out of memory" exactly when no single free block holds
\* count * instanceSize bytes, and then the free list is as it was.
C8_OutOfMemory ==
    memLast.op = "alloc" =>
        /\ memLast.oom <=> ~Fits(memLast.before, InstanceSize * memLast.count)
        /\ memLast.oom => freeBlocs = memLast.before

\* an alloc that threw although the free bytes together would have held the request
C8_Witness ==
    /\ memLast.op = "alloc"
    /\ memLast.oom
    /\ Cardinality(FreeBytes(memLast.before)) >= InstanceSize * memLast.count

\* C9: alloc(k) followed by free of the block it returned leaves the set of free bytes
\* as it was before the alloc.
C9_RoundTrip ==
    (memLast.op = "free" /\ memLast.roundTrip) =>
        FreeBytes(freeBlocs) = FreeBytes(memLast.origin)

\* a round trip that left the free list split differently from before
C9_Witness ==
    /\ memLast.op = "free"
    /\ memLast.roundTrip
    /\ Len(memLast.origin) >= 2
    /\ Len(freeBlocs) > Len(memLast.origin)

\* C10: after flush the pending-write list is empty and the staging offset is zero; a
\* flush called with an empty pending-write list records no copy and leaves the
\* pending-write list and the staging offset as they were.
C10_Flush ==
    devLast.op = "flush" =>
        /\ pendingWrites = <<>>
        /\ stagingBufferCurrentOffset = 0
        /\ devLast.pending = <<>> =>
              /\ commandList = <<>>
              /\ pendingWrites = devLast.pending
              /\ stagingBufferCurrentOffset = devLast.offset
        /\ devLast.pending # <<>> => commandList = <<devLast.pending>>

\* a flush of several writes
C10_Witness ==
    /\ devLast.op = "flush"
    /\ Len(devLast.pending) >= 2
    /\ devLast.offset > 0

\* the bytes of the blocs of a free list, counted bloc by bloc
RECURSIVE TotalSize(_)
TotalSize(list) == IF list = <<>> THEN 0 ELSE Head(list).size + TotalSize(Tail(list))

\* C34: free(block) appends exactly the block to the free list: the blocs that were
\* free stay as they were, in place, none is merged with the block, and the list is one
\* bloc longer.
C34_FreeAppends ==
    memLast.op = "free" =>
        /\ Len(freeBlocs) = Len(memLast.before) + 1
        /\ freeBlocs[Len(freeBlocs)] = memLast.block
        /\ \A i \in DOMAIN memLast.before : freeBlocs[i] = memLast.before[i]

\* two blocks freed one after the other lie side by side in the free list, unmerged,
\* and the alloc that followed failed although the free blocs together hold the bytes
\* it asked for
C34_Witness ==
    /\ memLast.op = "alloc" /\ memLast.oom
    /\ TotalSize(freeBlocs) >= memLast.count * InstanceSize
    /\ \E i, j \in DOMAIN freeBlocs :
          freeBlocs[i].offset + freeBlocs[i].size = freeBlocs[j].offset

(***************************************************************************)
(* Properties of DeviceMemoryArray called by two threads (SpecArena)       *)
(***************************************************************************)
Overlap(a, b) == a.offset < b.offset + b.size /\ b.offset < a.offset + a.size

\* the staged bytes of two pending writes
StagedOverlap(a, b) == a.srcOffset < b.srcOffset + b.size /\ b.srcOffset < a.srcOffset + a.size

\* C32: with two threads calling alloc, free, write and flush on one DeviceMemoryArray,
\* the blocks held and the free blocks tile the arena, no byte belongs to two blocks the
\* threads hold, and every write call that returned is either pending, with staged
\* bytes of its own, or was copied by exactly one flush.
C32_CallsAtomic ==
    /\ C1_Tiling
    /\ \A t, u \in ArenaThreads : \A a \in arenaHeld[t], b \in arenaHeld[u] :
          (t # u \/ a # b) => ~Overlap(a, b)
    /\ BagToSet(allocated) = UNION {arenaHeld[t] : t \in ArenaThreads}
    /\ writesRecorded = writesCopied + Len(pendingWrites)
    /\ \A i, j \in DOMAIN pendingWrites :
          i # j => ~StagedOverlap(pendingWrites[i], pendingWrites[j])
    /\ stagingBufferCurrentOffset <= StagingCapacity

\* one thread is inside a call holding the mutex while the other waits for it, after
\* both allocated and wrote and a flush copied
C32_Witness ==
    /\ \E t, u \in ArenaThreads :
          /\ arenaPc[t] = "commit" /\ arenaPc[u] = "lock"
          /\ arenaHeld[t] # {} /\ arenaHeld[u] # {}
    /\ writesCopied >= 1
    /\ pendingWrites # <<>>

(***************************************************************************)
(* Properties of AsyncQueue (SpecQueue)                                    *)
(***************************************************************************)
InSubmit(t) == pc[t] \in {"wait", "reset", "recycle", "submit", "setPrevious"}

\* C2: a command list that beginCommand has reset and returned to a caller is not being
\* executed by the device, is not pending in the queue, and is held by no other thread.
C2_NoReuseInFlight ==
    \A t \in Callers :
        pc[t] = "recording" =>
            /\ command[t].id \notin gpuExecuting
            /\ \A i \in DOMAIN commandsQueue : commandsQueue[i].id # command[t].id
            /\ \A u \in Threads \ {t} : command[u].id # command[t].id

\* C3: only commands submitted earlier are recycled, in submission order, and whenever no
\* submit call is in progress, after k >= 1 submissions exactly the first k - 1 submitted
\* commands have been recycled and the k-th is the previous command.
C3_RecycleOneBehind ==
    /\ Len(recycled) <= Len(submitted)
    /\ recycled = SubSeq(submitted, 1, Len(recycled))
    /\ (\A t \in Threads : ~InSubmit(t)) =>
          IF submitted = <<>>
          THEN recycled = <<>> /\ previousCommand = NullCommand
          ELSE /\ recycled = SubSeq(submitted, 1, Len(submitted) - 1)
               /\ previousCommand = submitted[Len(submitted)]

\* the ids of the commands in a sequence of commands
Ids(commands) == {commands[i].id : i \in DOMAIN commands}

\* the command is being recorded by a caller
Recording(id) == \E t \in Callers : pc[t] = "recording" /\ command[t].id = id

\* the buffers created against the command are released by this step
Released(id) == BuffersOf(id) > 0 /\ BuffersOf(id)' = 0

\* C13: the buffers created against a command are dropped only by the recycling of that
\* command in submit, and not while the command is being recorded, is pending in the
\* queue, or is the command that this very submit call hands to the device.
C13_BuffersPinned ==
    [][\A id \in 1..MaxBegins :
          /\ BuffersOf(id)' < BuffersOf(id) => Released(id)
          /\ Released(id) =>
               /\ \E t \in Threads : /\ pc[t] = "recycle" /\ pc'[t] = "submit"
                                     /\ previousCommand.id = id
                                     /\ command[t].id # id
               /\ ~Recording(id)
               /\ id \notin Ids(commandsQueue)]_vars

\* the set of the commands in a sequence of commands
Range(commands) == {commands[i] : i \in DOMAIN commands}

\* the caller returns from endCommand in this step
EndCommandReturns(t) == pc[t] \in {"recording", "setPrevious"} /\ pc'[t] = "idle"

\* C12: on a device without a dedicated transfer queue, whenever a caller returns from
\* endCommand, immediate or not, the command it passed has been submitted.
C12_SubmittedOnReturn ==
    [][~haveDedicatedTransferQueue =>
          \A t \in Callers : EndCommandReturns(t) => command[t] \in Range(submitted')]_vars

\* the caller returns from beginCommand in this step
BeginCommandReturns(t) == pc[t] = "idle" /\ pc'[t] = "recording"

\* C16: beginCommand(type) returns a command of that type: the front of the pool of the
\* type, taken off the pool, when that pool is not empty, and a command never seen before
\* otherwise; a command it returns was never submitted as the other type, and a pool
\* only holds commands of its type.
C16_BeginCommandPool ==
    /\ [](\A type \in CommandTypes :
            \A c \in Range(freeCommands[type]) : c.commandType = type)
    /\ [][\A t \in Callers :
            BeginCommandReturns(t) =>
              LET type == requested'[t]
                  pool == freeCommands[type]
              IN  /\ command'[t].commandType = type
                  /\ \A c \in Range(submitted) :
                        c.id = command'[t].id => c.commandType = type
                  /\ IF pool # <<>>
                     THEN /\ command'[t] = Head(pool)
                          /\ freeCommands' = [freeCommands EXCEPT ![type] = Tail(pool)]
                     ELSE /\ command'[t].id > created
                          /\ freeCommands' = freeCommands]_vars

\* a caller records a command that was submitted and recycled before
C16_Witness ==
    \E t \in Callers :
        /\ pc[t] = "recording"
        /\ command[t] \in Range(recycled)
        /\ command[t] \in Range(submitted)

(***************************************************************************)
(* Properties of the worker thread and the destructor (SpecQueueWorker)    *)
(***************************************************************************)
\* the number of commands passed to endCommand(command, false) so far: those submitted,
\* those in the queue and the one the worker popped and has not submitted yet
Enqueued ==
    Len(submitted) + Len(commandsQueue)
        + (IF pc[Worker] \in {"wait", "reset", "recycle", "submit"} THEN 1 ELSE 0)

\* C11: while the queue is not being destroyed, the n-th command passed to
\* endCommand(command, false) is eventually submitted, whatever its type.
C11_EventuallySubmitted ==
    \A n \in 1..MaxBegins :
        (Enqueued >= n) ~> (Len(submitted) >= n \/ destructor # "none")

\* C14: once the destructor has set quit, it eventually completes: the worker leaves run
\* and join returns.
C14_DestructorTerminates == (destructor # "none") ~> (destructor = "done")

\* C15: when the worker has left run, and when the destructor releases the commands, no
\* command is left in commandsQueue.
C15_DrainedAtShutdown ==
    (pc[Worker] = "exited" \/ destructor \in {"release", "done"}) => commandsQueue = <<>>

(***************************************************************************)
(* Properties of the lights and shadow maps (SpecLights)                   *)
(***************************************************************************)
\* the atlas slots of a light that owns a shadow-map renderer
SlotRange(light) ==
    {slot \in 0..(SlotCount - 1) :
        /\ slot >= shadowMapIndex[light]
        /\ slot < shadowMapIndex[light] + shadowMapRenderers[light]}

\* C4: every light that owns a shadow-map renderer has an atlas index, its slot range
\* lies inside the atlas, and no two such lights have overlapping slot ranges.
C4_SlotExclusivity ==
    /\ \A light \in DOMAIN shadowMapRenderers :
          /\ light \in DOMAIN shadowMapIndex
          /\ shadowMapIndex[light] >= 0
          /\ shadowMapIndex[light] + shadowMapRenderers[light] <= SlotCount
    /\ \A l1, l2 \in DOMAIN shadowMapRenderers :
          l1 # l2 => SlotRange(l1) \cap SlotRange(l2) = {}

\* two lights cast shadows at once, the later light in the first slot group: the group
\* was released by another light and assigned again
C4_Witness ==
    /\ Cardinality(DOMAIN shadowMapRenderers) = 2
    /\ \E l1, l2 \in DOMAIN shadowMapRenderers :
          /\ l1 < l2
          /\ shadowMapIndex[l1] = 6
          /\ shadowMapIndex[l2] = 0
    /\ \E light \in lights : castShadows[light] /\ light \notin DOMAIN shadowMapRenderers

\* the step is an update that handled removed lights or refreshed the shadow map descriptors
UpdatedLights ==
    \/ removedLights # {} /\ removedLights' = {}
    \/ shadowMapsUpdated /\ ~shadowMapsUpdated'

\* C26: when addLight or update enables shadow casting for a light with castShadows set
\* and the snapshot cannot give it a shadow-map renderer because maxShadowMapsPerScene
\* renderers exist, the call fails: it does not return normally with the light left
\* without a renderer.
C26_TooManyShadowMapsSignalled ==
    [][\A light \in Lights :
          (/\ castShadows[light]
           /\ light \in lights'
           /\ light \notin DOMAIN shadowMapRenderers'
           /\ Cardinality(DOMAIN shadowMapRenderers') >= MaxShadowMapsPerScene
           /\ (light \notin lights \/ UpdatedLights))
          => lightsError' # "none"]_vars

\* C27: the lights buffer never holds more than maxLights lights, and an update never
\* grows it for more than maxLights lights.
C27_LightsBufferCapped ==
    /\ [](lightsBufferCount <= MaxLights)
    /\ [][lightsBufferCount' # lightsBufferCount => Cardinality(lights') <= MaxLights]_vars

\* C28: once Scene::removeLight(L) has been followed by an update of the snapshot, L is
\* not in the snapshot's lights, has no shadow-map renderer and no atlas slot holds one of
\* its shadow maps.
C28_RemovedLightGone ==
    \A light \in Lights :
        lightRemoval[light] = "updated" =>
            /\ light \notin lights
            /\ light \notin DOMAIN shadowMapRenderers
            /\ \A slot \in DOMAIN shadowMaps : shadowMaps[slot][1] # light

\* the groups of six atlas slots, and the slots of a group
SlotGroups == 0..(MaxShadowMapsPerScene - 1)
GroupSlots(group) == (6 * group)..(6 * group + 5)

GroupOccupied(group) == \E slot \in GroupSlots(group) : shadowMaps[slot] # BlankImage

GroupOwners(group) ==
    {light \in DOMAIN shadowMapRenderers :
        light \in DOMAIN shadowMapIndex /\ shadowMapIndex[light] = 6 * group}

\* C37: an update takes the renderer of every light that no longer casts shadows and
\* blanks its slots; in every state a slot group holds an image exactly when one
\* shadow-map renderer owns it, every renderer owns a group, and enableLightShadowCasting
\* has not thrown "Out of memory for shadow map".
C37_SlotsReleased ==
    /\ [](/\ \A group \in SlotGroups :
                /\ GroupOccupied(group) <=> GroupOwners(group) # {}
                /\ Cardinality(GroupOwners(group)) <= 1
          /\ \A light \in DOMAIN shadowMapRenderers :
                \E group \in SlotGroups : light \in GroupOwners(group)
          /\ lightsError # "Out of memory for shadow map")
    /\ [][Update =>
            \A light \in lights' :
                ~castShadows[light] =>
                    /\ light \notin DOMAIN shadowMapRenderers'
                    /\ \A slot \in DOMAIN shadowMaps' : shadowMaps'[slot][1] # light]_vars

\* a renderer was created for a light and an update released it: no renderer is left,
\* the atlas is blank again, and a light of the snapshot does not cast shadows
C37_Witness ==
    /\ materialsUpdated
    /\ DOMAIN shadowMapRenderers = {}
    /\ \A slot \in DOMAIN shadowMaps : shadowMaps[slot] = BlankImage
    /\ ~shadowMapsUpdated
    /\ removedLights = {}
    /\ \E light \in lights : ~castShadows[light]

(***************************************************************************)
(* Properties of Scene (SpecScene)                                         *)
(***************************************************************************)
\* C5: after synchronous addInstance and removeInstance calls followed by
\* processDeferredOperations(f), the mesh instances of frame f's snapshot are the
\* Scene's mesh instances.
C5_SnapshotFollowsScene ==
    (sceneLast.op = "processDeferredOperations" /\ ~asyncUsed) =>
        DOMAIN meshInstancesDataMemoryBlocks[sceneLast.frame] = meshInstances

\* C6: no precondition of SceneFrameData::addInstance, removeInstance or updateInstance
\* is violated by the calls processDeferredOperations makes.
C6_NoPreconditionViolated ==
    sceneFailed \in {"none", "Out of memory"}

\* the position of a snapshot call in the order removals, additions, updates
CallRank(op) == IF op = "removeInstance" THEN 1 ELSE IF op = "addInstance" THEN 2 ELSE 3

\* C23: in one processDeferredOperations call every removeInstance call on the snapshot
\* comes before every addInstance call, and every addInstance call before every
\* updateInstance call.
C23_RemovalsAdditionsUpdates ==
    sceneLast.op = "processDeferredOperations" =>
        \A i, j \in DOMAIN sceneLast.calls :
            i < j => CallRank(sceneLast.calls[i].op) <= CallRank(sceneLast.calls[j].op)

\* one drain removed an instance, added one and updated another
C23_Witness ==
    /\ sceneLast.op = "processDeferredOperations"
    /\ \A op \in {"removeInstance", "addInstance", "updateInstance"} :
           \E i \in DOMAIN sceneLast.calls : sceneLast.calls[i].op = op
    /\ sceneFailed = "none"

\* C36: after updateInstance(X), the next processDeferredOperations(f) of every frame f
\* whose snapshot holds X writes the data of X into the snapshot: when a drain of frame
\* f returns, no record of its snapshot is older than the data of its instance.
C36_UpdateReachesEveryFrame ==
    (sceneLast.op = "processDeferredOperations" /\ sceneFailed = "none") =>
        staleData[sceneLast.frame] = {}

\* the snapshot calls of the last processDeferredOperations that are calls of op
CallsOf(op) == {i \in DOMAIN sceneLast.calls : sceneLast.calls[i].op = op}

\* C39: a processDeferredOperations call applies at most maxAsyncNodesUpdatedPerFrame
\* async removals and at most maxAsyncNodesUpdatedPerFrame async additions to the snapshot
\* of the frame; the async operations it does not apply stay pending for the frame.
C39_AsyncThrottle ==
    sceneLast.op = "processDeferredOperations" =>
        /\ Cardinality(CallsOf("removeInstance")) <= MaxAsyncNodesUpdatedPerFrame
        /\ Cardinality(CallsOf("addInstance")) <= MaxAsyncNodesUpdatedPerFrame

(***************************************************************************)
(* Properties of GraphicPipelineData (SpecPipeline)                        *)
(***************************************************************************)
\* the step is a successful addInstance of the mesh instance
AddedInstance(meshInstance) ==
    /\ meshInstance \notin DOMAIN meshInstancesDataMemoryBlocks[BatchFrame]
    /\ meshInstance \in DOMAIN meshInstancesDataMemoryBlocks'[BatchFrame]
    /\ pipelineError' = "none"

\* the number of surfaces of the batch among the first i surfaces of the mesh instance
Rank(meshInstance, i) == Cardinality({j \in BatchSurfaces(meshInstance) : j < i})

\* the block is in no free block of the list
Held(list, bloc) ==
    \A i \in DOMAIN list :
        \/ bloc.offset + bloc.size <= list[i].offset
        \/ list[i].offset + list[i].size <= bloc.offset

\* the block lies inside one free block of the list
Freed(list, bloc) ==
    \E i \in DOMAIN list :
        /\ list[i].offset <= bloc.offset
        /\ bloc.offset + bloc.size <= list[i].offset + list[i].size

\* C17: addInstance(I) allocates one block of the instance arena for I, appends one draw
\* command per surface of I that belongs to the batch, in surface order, each with
\* instanceCount 1 and firstInstance = instanceIndex = block index + rank of the surface
\* among those of the batch, raises drawCommandsCount by their number and marks the batch.
C17_AddInstance ==
    [][\A mi \in BatchInstances :
          AddedInstance(mi) =>
            LET bloc == instancesMemoryBlocks'[mi]
                added == Cardinality(BatchSurfaces(mi))
                before == Len(drawCommands)
            IN  /\ mi \in DOMAIN instancesMemoryBlocks'
                /\ bloc.size = Len(SurfacePipelines(mi)) * InstanceSize
                /\ Freed(instancesFreeBlocs, bloc)
                /\ Held(instancesFreeBlocs', bloc)
                /\ Len(drawCommands') = before + added
                /\ SubSeq(drawCommands', 1, before) = drawCommands
                /\ \A k \in 1..added :
                      LET c == drawCommands'[before + k]
                      IN  /\ c.meshInstance = mi
                          /\ c.surface \in BatchSurfaces(mi)
                          /\ Rank(mi, c.surface) = k - 1
                          /\ c.instanceCount = 1
                          /\ c.instanceIndex = bloc.instanceIndex + Rank(mi, c.surface)
                          /\ c.firstInstance = c.instanceIndex
                /\ instancesUpdated']_vars

\* a mesh instance whose first surface belongs to another pipeline was added after another
\* one: its draw command is numbered by its rank, not by its surface
C17_Witness ==
    \E i \in DOMAIN drawCommands :
        /\ i > 1
        /\ drawCommands[i].surface = 2
        /\ Rank(drawCommands[i].meshInstance, 2) = 0
        /\ drawCommands[i].meshInstance \in DOMAIN instancesMemoryBlocks
        /\ drawCommands[i].instanceIndex =
               instancesMemoryBlocks[drawCommands[i].meshInstance].instanceIndex
        /\ instancesUpdated

\* the draw commands of the list that refer to the mesh instance
CommandsOf(list, meshInstance) == SelectSeq(list, LAMBDA c : c.meshInstance = meshInstance)

\* the (meshInstance, surface) pairs of a draw list, with their numbers of occurrences
Pairs(list) ==
    LET pairs == {<<list[i].meshInstance, list[i].surface>> : i \in DOMAIN list}
    IN  [p \in pairs |-> Cardinality({i \in DOMAIN list :
                                         <<list[i].meshInstance, list[i].surface>> = p})]

\* the pairs of the surfaces of the batch of a set of mesh instances, once each
PairsOf(instances) ==
    LET pairs == {p \in instances \X (1..2) : p[2] \in BatchSurfaces(p[1])}
    IN  [p \in pairs |-> 1]

\* the step is the updateData that follows the removals
UpdatedData == instancesToRemove # {} /\ instancesToRemove' = {}

\* C18: an instance removed from the batch keeps its block and its draw commands until
\* the next updateData; that updateData frees the block and leaves in the draw list the
\* draw commands of the instances that remain and none of the removed instance.
C18_DeferredRemoval ==
    [][\A mi \in instancesToRemove :
          IF UpdatedData
          THEN /\ Freed(instancesFreeBlocs', instancesMemoryBlocks[mi])
               /\ CommandsOf(drawCommands', mi) = <<>>
               /\ Pairs(drawCommands') = PairsOf(DOMAIN instancesMemoryBlocks')
          ELSE /\ mi \in DOMAIN instancesMemoryBlocks'
               /\ instancesMemoryBlocks'[mi] = instancesMemoryBlocks[mi]
               /\ Held(instancesFreeBlocs', instancesMemoryBlocks[mi])
               /\ CommandsOf(drawCommands', mi) = CommandsOf(drawCommands, mi)]_vars

\* C19: once updateData has run on every change, the draw list holds, once each, the
\* (meshInstance, surface) pairs of the instances of the snapshot, so removing instances
\* and adding them again, in any order, gives back the pairs held before the removal.
C19_ReAddKeepsPairs ==
    (instancesToRemove = {} /\ ~instancesUpdated /\ pipelineError = "none") =>
        Pairs(drawCommands) = PairsOf(DOMAIN meshInstancesDataMemoryBlocks[BatchFrame])

\* C20: when updateData replaces the staging buffer, the buffer it replaces is in the
\* recycle bin and not released after the call; a buffer is released only by the clearing
\* of the recycle bin in a later update; and after an upload the staging buffer holds at
\* least drawCommandsCount commands.
C20_StagingRecycled ==
    /\ [](releasedBuffers \cap drawCommandsStagingBufferRecycleBin = {})
    /\ [](drawCommandsStagingBuffer \notin releasedBuffers)
    /\ [][/\ (drawCommandsStagingBuffer # NoBuffer
                 /\ drawCommandsStagingBuffer' # drawCommandsStagingBuffer) =>
               /\ drawCommandsStagingBuffer \in drawCommandsStagingBufferRecycleBin'
               /\ drawCommandsStagingBuffer \notin releasedBuffers'
          /\ releasedBuffers' \ releasedBuffers \subseteq drawCommandsStagingBufferRecycleBin
          /\ (instancesUpdated /\ ~instancesUpdated') =>
               /\ drawCommandsStagingBuffer' # NoBuffer
               /\ drawCommandsStagingBufferCount' >= Len(drawCommands')]_vars

\* a staging buffer was replaced: the old one waits in the recycle bin
C20_Witness ==
    /\ drawCommandsStagingBufferRecycleBin # {}
    /\ drawCommandsStagingBuffer > 1
    /\ drawCommandsStagingBufferCount = Len(drawCommands)
    /\ ~instancesUpdated

\* C24: the blocks of an instance removed in a drain are free before an addition of the
\* same drain allocates, so an addInstance that follows a removeInstance not yet followed
\* by an update does not fail with "Out of memory" (every mesh has the same number of
\* surfaces, so the blocks of a removed instance are large enough for the added one).
C24_RemovedSlotsReusable ==
    [][(pipelineError = "none" /\ instancesToRemove # {}) =>
           pipelineError' # "Out of memory"]_vars

\* the bytes of a block and the bytes of the blocks of a free list
BlockBytes(bloc) == bloc.offset..(bloc.offset + bloc.size - 1)
ListBytes(list) == UNION {BlockBytes(list[i]) : i \in DOMAIN list}

\* the free list and the blocks of the mesh instance arena of the snapshot
SnapshotFree == meshInstancesFreeBlocs[BatchFrame]
SnapshotBlocks == meshInstancesDataMemoryBlocks[BatchFrame]

\* C25: addInstance(I) takes the bytes of the block it records for I out of the free bytes
\* of the mesh instance arena and nothing else, and removeInstance(I) gives back exactly
\* the bytes of that block and forgets it, so addInstance(I) followed by removeInstance(I)
\* leaves the free bytes that were there before and no block for I.
C25_AddRemoveRoundTrip ==
    [][\A mi \in BatchInstances :
          /\ (mi \notin DOMAIN SnapshotBlocks /\ mi \in DOMAIN SnapshotBlocks') =>
                /\ BlockBytes(SnapshotBlocks'[mi]) \subseteq ListBytes(SnapshotFree)
                /\ ListBytes(SnapshotFree') =
                       ListBytes(SnapshotFree) \ BlockBytes(SnapshotBlocks'[mi])
          /\ (mi \in DOMAIN SnapshotBlocks /\ mi \notin DOMAIN SnapshotBlocks') =>
                /\ ListBytes(SnapshotFree') =
                       ListBytes(SnapshotFree) \cup BlockBytes(SnapshotBlocks[mi])
                /\ BlockBytes(SnapshotBlocks[mi]) # {}]_vars

\* the only calls so far were addInstance(I) and removeInstance(I): the arena is free
\* again and the snapshot holds no block
C25_Witness ==
    /\ \E mi \in BatchInstances : DOMAIN instancesMemoryBlocks = {mi} /\ instancesToRemove = {mi}
    /\ stagingBuffersCreated = 0
    /\ DOMAIN SnapshotBlocks = {}
    /\ ListBytes(SnapshotFree) = 0..(InstanceSize * MaxMeshInstancesPerScene - 1)

\* C38: for any sequence of addInstance, removeInstance and updateData calls on a batch in
\* which every alloc succeeds, the bytes written to the staging buffer of the instance
\* arena between two flushes stay within its capacity of maxMeshSurfacePerPipeline
\* records, an updateData that rebuilds the batch after additions included: no write goes
\* past the end of the staging buffer.
C38_StagedWithinCapacity == ~stagingOverflow

\* the bytes of the instance arena of the batch and those that are allocated
InstancesBytes == 0..(InstanceSize * MaxMeshSurfacePerPipeline - 1)
InstancesAllocated == InstancesBytes \ ListBytes(instancesFreeBlocs)

\* C40: in a pipeline batch every allocated block of the instance arena is recorded in
\* instancesMemoryBlocks for exactly one instance (the allocated bytes are the bytes of
\* the recorded blocks, which do not overlap), drawCommandsCount never exceeds
\* maxMeshSurfacePerPipeline, and after updateData no instance is left marked for removal
\* with a block still allocated.
C40_BlocksOwned ==
    pipelineError = "none" =>
        /\ InstancesAllocated =
               UNION {BlockBytes(instancesMemoryBlocks[mi]) : mi \in DOMAIN instancesMemoryBlocks}
        /\ \A a, b \in DOMAIN instancesMemoryBlocks :
               a # b => BlockBytes(instancesMemoryBlocks[a])
                            \cap BlockBytes(instancesMemoryBlocks[b]) = {}
        /\ DrawCommandsCount <= MaxMeshSurfacePerPipeline
        /\ instancesToRemove \subseteq DOMAIN instancesMemoryBlocks

(***************************************************************************)
(* Properties of FrustumCulling (SpecCulling)                              *)
(***************************************************************************)
\* C21: every dispatch records the copy that clears the counter before any other copy or
\* dispatch, and after a dispatch with drawCommandsCount = 0 the counter holds 0 whatever
\* it held on entry.
C21_CounterCleared ==
    cullingLast # NoDispatch =>
        /\ \E i \in DOMAIN cullingLast.commands :
              /\ cullingLast.commands[i] = Copy("commandClearCounterBuffer", "counter")
              /\ \A j \in 1..(i - 1) : cullingLast.commands[j].op = "barrier"
        /\ cullingLast.drawCommandsCount = 0 => counterValue = 0

\* a dispatch with drawCommandsCount = 0 found a counter that was not 0
C21_Witness ==
    /\ cullingLast.drawCommandsCount = 0
    /\ cullingLast.counter > 0
    /\ counterValue = 0

\* C22: on return from a dispatch the input, output and counter buffers are in the
\* indirect-draw state, and every barrier recorded so far started from the state its
\* buffer was in.
C22_StatesRestored ==
    cullingLast # NoDispatch =>
        /\ \A buffer \in CullingBuffers : resourceState[buffer] = "INDIRECT_DRAW"
        /\ ~barrierMismatch

\* C35: once the device has executed the commands of a dispatch, getDrawCommandsCount
\* returns the counter that dispatch produced, 0 when its drawCommandsCount was 0, and
\* not the count of an earlier dispatch.
C35_CountOfLastDispatch ==
    cullingLast # NoDispatch =>
        /\ GetDrawCommandsCount = counterValue
        /\ cullingLast.drawCommandsCount = 0 => GetDrawCommandsCount = 0

(***************************************************************************)
(* Properties of the draw submission (SpecDraw)                            *)
(***************************************************************************)
\* C29: a draw submission changes no arena free list, pending write, draw list, dirty
\* flag, instance map or light and shadow table of the snapshot or of its batch.
C29_DrawIsPureRead ==
    [][drawRecorded' # drawRecorded =>
          /\ UNCHANGED pipelineVars
          /\ UNCHANGED <<meshInstancesDataMemoryBlocks, meshInstancesFreeBlocs,
                         meshInstancesDataUpdated>>
          /\ UNCHANGED lightVars
          /\ UNCHANGED memVars]_vars

\* a draw was recorded while instance data was waiting for its upload and a removal for
\* its updateData
C29_Witness ==
    /\ drawRecorded # <<>>
    /\ instancesUpdated
    /\ instancesToRemove # {}
    /\ meshInstancesDataUpdated[BatchFrame]

TouchingCalls == {"commandAllocator.reset", "processDeferredOperations", "record update",
                  "SceneFrameData.update", "record compute", "record prepare",
                  "record render"}

\* C31: a render call resets the allocator of its frame, records its command lists and
\* drains and updates its snapshot only after acquire, and acquire returns only when the
\* fence signalled by the previous render submission of the frame is signalled, so that
\* no command list of the frame is still waiting or running; a render call whose acquire
\* fails changes nothing of the frame.
C31_FrameReusedAfterFence ==
    [][renderLast' # renderLast =>
         LET frame == renderLast'.frame
             calls == renderLast'.calls
         IN  /\ inFlightFence[frame]
             /\ \A list \in CommandLists :
                   submissionState[frame][list] \in {"none", "finished"}
             /\ \A i \in DOMAIN calls :
                   calls[i] \in TouchingCalls =>
                       \E j \in 1..(i - 1) : calls[j] = "acquire"
             /\ ~renderLast'.acquired =>
                   /\ \A i \in DOMAIN calls : calls[i] \notin TouchingCalls
                   /\ UNCHANGED <<submissionState, semaphoreSignaled, inFlightFence,
                                  currentFrameIndex>>]_vars

\* a frame is rendered again after the device finished its previous submissions
C31_Witness ==
    /\ renderLast.acquired
    /\ \A list \in CommandLists : renderLast.before[list] = "finished"
    /\ submissionState[renderLast.frame]["update"] = "submitted"

(***************************************************************************)
(* Properties of the frustum culling (SpecFrustum)                         *)
(***************************************************************************)
\* the clip coordinates of a world point under the view-projection matrix of a dispatch
Clip(point) == MulVector(point, ViewProjection(cullView, cullProjection))

\* the six half-spaces of the view-projection matrix, on clip coordinates <<x, y, z, w>>:
\* LEFT w + x >= 0, RIGHT w - x >= 0, BOTTOM w + y >= 0, TOP w - y >= 0,
\* NEAR w + z >= 0, FAR w - z >= 0
InHalfSpace(i, clip) ==
    LET axis == (i + 1) \div 2
    IN  IF i % 2 = 1 THEN clip[4] + clip[axis] >= 0 ELSE clip[4] - clip[axis] >= 0

FullyOutside(aabb) ==
    \E i \in 1..6 : \A corner \in Corners(aabb) : ~InHalfSpace(i, Clip(corner))

FullyInside(aabb) ==
    \A i \in 1..6 : \A corner \in Corners(aabb) : InHalfSpace(i, Clip(corner))

InOutput(aabb) == \E k \in DOMAIN culledOutput.commands : culledOutput.commands[k] = aabb

\* C33: after a dispatch, an AABB that lies fully outside one of the six half-spaces of
\* the view-projection matrix is not in the culled output, an AABB that lies fully
\* inside all six is, and the output count is the number of AABBs kept.
C33_FrustumCulling ==
    culledOutput.dispatched =>
        /\ \A k \in DOMAIN cullAABBs :
              /\ FullyOutside(cullAABBs[k]) => ~InOutput(cullAABBs[k])
              /\ FullyInside(cullAABBs[k]) => InOutput(cullAABBs[k])
        /\ Len(culledOutput.commands) <= Len(cullAABBs)

\* a camera away from the origin and turned a quarter turn, one AABB fully inside and
\* kept, the other fully outside and culled
C33_Witness ==
    /\ culledOutput.dispatched
    /\ cullView = CameraTransform(1, <<3, 0, 2>>)
    /\ Len(culledOutput.commands) = 1
    /\ FullyInside(cullAABBs[1]) /\ InOutput(cullAABBs[1])
    /\ FullyOutside(cullAABBs[2]) /\ ~InOutput(cullAABBs[2])

====
